---- MODULE Spec2Model ----
(***************************************************************************)
(* A model of the division-method chained hash table of                    *)
(* data-structures/ht-divchn/ht-divchn.c, of the circular doubly linked    *)
(* list of data-structures/dll/dll.c that holds its chains, and of the     *)
(* locking protocol of the multithreaded table (ht-divchn-pthread).        *)
(*                                                                         *)
(* size_t is modelled as a word of C_FULL_BIT = 16 bits, the smallest      *)
(* width the implementation supports; every word value and every product  *)
(* of two half-words then fits a 32-bit integer.                           *)
(***************************************************************************)
EXTENDS Integers, Sequences, FiniteSets, TLC

(***************************************************************************)
(* Bounds of the model.                                                    *)
(***************************************************************************)
NumKeys == 2        \* distinct keys the callers use
NumElts == 2        \* distinct element values the callers use
MaxBatch == 3       \* pairs in the longest batch of a batch insert
MaxKeyLen == 4      \* bytes in the longest key given to convert_std_key
MaxNodes == 3       \* nodes the caller of the list functions has allocated at a time
NumThreads == 2     \* threads that run operations on the multithreaded table
NumLocks == 2       \* slot locks of the multithreaded table (P)

(***************************************************************************)
(* Program constants.                                                      *)
(***************************************************************************)
NULL == 0
C_BUILD_SHIFT == 16
C_BYTE_BIT == 8
C_FULL_BIT == 16
KeySize == 2        \* key_size = sizeof(size_t) bytes on the 16-bit word

RECURSIVE Pow2(_)
Pow2(n) == IF n = 0 THEN 1 ELSE 2 * Pow2(n - 1)

C_SIZE_MAX == Pow2(C_FULL_BIT) - 1
WordMod == Pow2(C_FULL_BIT)
Word(x) == x % WordMod

C_PRIME_PARTS ==
  << 1543, 3119, 6211, 12343, 23981, 48673, 23307, 1, 55509, 2,
     49689, 5, 119, 12, 41539, 22, 8233, 49, 52257, 95,
     21543, 191, 895, 384, 17083, 783, 7285, 1719, 38573, 3224,
     38583, 6296, 49423, 11983, 16987, 24591, 7, 49152, 367, 32768,
     1, 37701, 65480, 2, 21795, 62066, 5, 5493, 2659, 12,
     8955, 51719, 27, 50451, 19819, 49, 42701, 20723, 97, 40993,
     21600, 190, 59945, 30850, 377, 60079, 31805, 757, 43871, 23145,
     1535, 27423, 10735, 3108, 51227, 13735, 6142, 22455, 52414, 12283,
     51451, 7592, 27635, 33475, 11423, 49868, 12851, 7252, 32064, 1,
     24749, 18081, 62814, 2, 27563, 16580, 61738, 5, 45645, 26469,
     14517, 11, 30879, 64916, 50866, 23, 3381, 21571, 65364, 48,
     9317, 29945, 17105, 94, 53271, 37063, 14259, 198, 20565, 23170,
     25823, 403, 28559, 16955, 35145, 772, 54823, 2272, 2863, 1534,
     48065, 26156, 19856, 2989, 63443, 17825, 36043, 6237, 50759, 15505,
     18098, 11931, 22689, 48534, 10294, 24460, 35177, 19568, 28094, 56024 >>

C_PRIME_PARTS_COUNT == 6 + 16 * (2 + 3 + 4)
C_PARTS_PER_PRIME == << 1, 2, 3, 4 >>
C_PARTS_ACC_COUNTS == << 6, 6 + 16 * 2, 6 + 16 * (2 + 3), 6 + 16 * (2 + 3 + 4) >>

\* a C array read a[i], i counted from 0
At(a, i) == a[i + 1]

(***************************************************************************)
(* Keys and elements of the callers.  A key is a block of KeySize bytes,   *)
(* written here as the sequence of its bytes in memory order.  The key     *)
(* values are chosen to collide: 5, 3124 and 6243 share a slot mod 3119,   *)
(* 5 and 6216 share a slot mod 6211, 5 and 1548 share a slot mod 1543.     *)
(***************************************************************************)
KeyVals == << 5, 3124, 6243, 6216, 1548, 12348 >>

RECURSIVE Bytes(_, _)
Bytes(v, n) == IF n = 0 THEN << >>
               ELSE << v % Pow2(C_BYTE_BIT) >> \o Bytes(v \div Pow2(C_BYTE_BIT), n - 1)

Keys == { Bytes(KeyVals[i], KeySize) : i \in 1..NumKeys }
Elts == 1..NumElts
NoElt == NULL

(***************************************************************************)
(* dll.c: nodes live in a heap mem, a function from the addresses in use   *)
(* to node records; a head pointer is an address or NULL.  Each list       *)
(* operation returns the heap and the head pointer it leaves.              *)
(***************************************************************************)
Addr == 1..(NumKeys * NumThreads)

\* malloc: some address not in use (the lowest, addresses are reused)
Alloc(mem) == CHOOSE a \in Addr \ DOMAIN mem : \A b \in Addr \ DOMAIN mem : a <= b

Restrict(f, S) == [x \in S |-> f[x]]

\* a dll_prepend that leaves the prev pointer of the old head as it was
M_prepend_no_back_link(mem, head, node) ==
  IF head = NULL
  THEN [mem |-> [mem EXCEPT ![node].next = node, ![node].prev = node],
        head |-> node]
  ELSE LET p  == mem[head].prev
           m1 == [mem EXCEPT ![node].next = head, ![node].prev = p]
           m2 == [m1 EXCEPT ![p].next = node]
       IN  [mem |-> m2, head |-> node]

dll_prepend(mem, head, node) ==
  IF head = NULL
  THEN [mem |-> [mem EXCEPT ![node].next = node, ![node].prev = node],
        head |-> node]
  ELSE LET p  == mem[head].prev
           m1 == [mem EXCEPT ![node].next = head, ![node].prev = p]
           m2 == [m1 EXCEPT ![p].next = node]
           m3 == [m2 EXCEPT ![head].prev = node]
       IN  [mem |-> m3, head |-> node]

dll_prepend_new(mem, head, key, elt) ==
  LET node == Alloc(mem)
      m0   == [a \in DOMAIN mem \cup {node} |->
                 IF a = node
                 THEN [key |-> key, elt |-> elt, next |-> NULL, prev |-> NULL]
                 ELSE mem[a]]
  IN  dll_prepend(m0, head, node)

\* dll_prepend, then *head = (*head)->next
Advanced1(r) == [mem |-> r.mem, head |-> r.mem[r.head].next]

dll_append_new(mem, head, key, elt) == Advanced1(dll_prepend_new(mem, head, key, elt))

dll_append(mem, head, node) == Advanced1(dll_prepend(mem, head, node))

RECURSIVE SearchRing(_, _, _, _, _)
SearchRing(mem, head, node, key, fuel) ==
  IF node = head \/ fuel = 0 THEN NULL
  ELSE IF mem[node].key = key THEN node
  ELSE SearchRing(mem, head, mem[node].next, key, fuel - 1)

M_search_head_only(mem, head, key) ==
  IF head = NULL THEN NULL
  ELSE IF mem[head].key = key THEN head
  ELSE NULL

dll_search_key(mem, head, key) ==
  IF head = NULL THEN NULL
  ELSE IF mem[head].key = key THEN head
  ELSE SearchRing(mem, head, mem[head].next, key, Cardinality(DOMAIN mem))

\* a dll_remove that leaves the head pointer on the removed node
M_remove_keeps_head(mem, head, node) ==
  IF head = NULL \/ node = NULL
  THEN [mem |-> mem, head |-> head]
  ELSE IF mem[node].prev = node /\ mem[node].next = node
  THEN [mem |-> mem, head |-> NULL]
  ELSE LET m1 == [mem EXCEPT ![mem[node].next].prev = mem[node].prev]
           m2 == [m1 EXCEPT ![m1[node].prev].next = m1[node].next]
       IN  [mem |-> m2, head |-> head]

dll_remove(mem, head, node) ==
  IF head = NULL \/ node = NULL
  THEN [mem |-> mem, head |-> head]
  ELSE IF mem[node].prev = node /\ mem[node].next = node
  THEN [mem |-> mem, head |-> NULL]
  ELSE LET m1 == [mem EXCEPT ![mem[node].next].prev = mem[node].prev]
           m2 == [m1 EXCEPT ![m1[node].prev].next = m1[node].next]
       IN  [mem |-> m2, head |-> IF head = node THEN m2[node].next ELSE head]

\* freed is the sequence of the element blocks free_elt was called on
dll_delete(mem, head, node, free_elt) ==
  IF head = NULL \/ node = NULL
  THEN [mem |-> mem, head |-> head, freed |-> << >>]
  ELSE LET r == dll_remove(mem, head, node)
       IN  [mem   |-> Restrict(r.mem, DOMAIN r.mem \ {node}),
            head  |-> r.head,
            freed |-> IF free_elt # NULL THEN << mem[node].elt >> ELSE << >>]

\* the loop of dll_free from the node after the head until the head's
\* address is met again
RECURSIVE FreeRing(_, _, _, _, _)
FreeRing(mem, head, node, free_elt, fuel) ==
  IF node = head \/ fuel = 0 THEN [mem |-> mem, freed |-> << >>]
  ELSE LET r == FreeRing(Restrict(mem, DOMAIN mem \ {node}), head,
                         mem[node].next, free_elt, fuel - 1)
       IN  [mem   |-> r.mem,
            freed |-> (IF free_elt # NULL THEN << mem[node].elt >> ELSE << >>)
                      \o r.freed]

\* a dll_free that releases the nodes and never calls free_elt
M_dll_free_silent(mem, head, free_elt) ==
  IF head = NULL THEN [mem |-> mem, head |-> NULL, freed |-> << >>]
  ELSE [mem   |-> FreeRing(Restrict(mem, DOMAIN mem \ {head}), head,
                           mem[head].next, NULL, Cardinality(DOMAIN mem)).mem,
        head  |-> NULL,
        freed |-> << >>]

\* a dll_free that stops after the head node
M_dll_free_head_only(mem, head, free_elt) ==
  IF head = NULL THEN [mem |-> mem, head |-> NULL, freed |-> << >>]
  ELSE [mem   |-> Restrict(mem, DOMAIN mem \ {head}),
        head  |-> NULL,
        freed |-> IF free_elt # NULL THEN << mem[head].elt >> ELSE << >>]

dll_free(mem, head, free_elt) ==
  IF head = NULL THEN [mem |-> mem, head |-> NULL, freed |-> << >>]
  ELSE LET r == FreeRing(Restrict(mem, DOMAIN mem \ {head}), head,
                         mem[head].next, free_elt, Cardinality(DOMAIN mem))
       IN  [mem   |-> r.mem,
            head  |-> NULL,
            freed |-> (IF free_elt # NULL THEN << mem[head].elt >> ELSE << >>)
                      \o r.freed]

(***************************************************************************)
(* utilities-mod: the full product of two words, as a high and a low word. *)
(* The product is formed from half-words, so no intermediate value exceeds *)
(* two words.                                                              *)
(***************************************************************************)
mul_ext(a, b) ==
  LET hb  == Pow2(C_FULL_BIT \div 2)
      al  == a % hb
      ah  == a \div hb
      bl  == b % hb
      bh  == b \div hb
      ll  == al * bl
      mid == ah * bl + al * bh + (ll \div hb)
  IN  [h |-> ah * bh + (mid \div hb),
       l |-> (mid % hb) * hb + (ll % hb)]

(***************************************************************************)
(* ht-divchn.c, auxiliary functions.  The table is initialised with        *)
(* cmp_key, rdc_key and free_elt NULL: keys are compared with memcmp and   *)
(* reduced with the default conversion.                                    *)
(***************************************************************************)
\* sum of buf[i] << (i * C_BYTE_BIT) over the bytes of one block, wrapping
RECURSIVE SumBlock(_, _)
SumBlock(buf, i) ==
  IF i >= Len(buf) THEN 0
  ELSE Word(buf[i + 1] * Pow2(i * C_BYTE_BIT)) + SumBlock(buf, i + 1)

\* the loop over the sizeof(size_t)-byte blocks that follow the remainder
RECURSIVE SumBlocks(_, _, _)
SumBlocks(key, from, buf_size) ==
  IF from + buf_size > Len(key) THEN 0
  ELSE SumBlock(SubSeq(key, from + 1, from + buf_size), 0)
       + SumBlocks(key, from + buf_size, buf_size)

convert_std_key(key) ==
  LET buf_size == C_FULL_BIT \div C_BYTE_BIT
      sz_count == Len(key) \div buf_size
      rem_size == Len(key) - sz_count * buf_size
  IN  Word(SumBlock(SubSeq(key, 1, rem_size), 0)
           + SumBlocks(key, rem_size, buf_size))

M_hash_first_prime(ht, key) == convert_std_key(key) % At(C_PRIME_PARTS, 0)

\* the conversion of each of the callers' keys
StdKey == [k \in Keys |-> convert_std_key(k)]

hash(ht, key) == StdKey[key] % ht.count

mul_alpha_sz_max(n, alpha_n, log_alpha_d) ==
  LET p == mul_ext(n, alpha_n)
  IN  IF p.h \div Pow2(log_alpha_d) # 0 THEN C_SIZE_MAX
      ELSE Word((p.l \div Pow2(log_alpha_d))
                + Word(p.h * Pow2(C_FULL_BIT - log_alpha_d)))

\* h << c on a word.  A shift by the width of the word is undefined: the
\* machine either shifts everything out or takes the count modulo the width.
shift_left(h, c) ==
  IF c < C_FULL_BIT THEN { Word(h * Pow2(c)) } ELSE { 0, h }

\* a mul_alpha_sz_max that drops the high word of the product
M_mul_alpha_low_word(n, alpha_n, log_alpha_d) ==
  { mul_ext(n, alpha_n).l \div Pow2(log_alpha_d) }

\* the shift counts of mul_alpha_sz_max in the order it shifts: h >>
\* log_alpha_d, and unless it returns there, l >>= log_alpha_d and
\* h <<= (C_FULL_BIT - log_alpha_d)
mul_alpha_sz_max_shifts(n, alpha_n, log_alpha_d) ==
  IF mul_ext(n, alpha_n).h \div Pow2(log_alpha_d) # 0
  THEN << log_alpha_d >>
  ELSE << log_alpha_d, log_alpha_d, C_FULL_BIT - log_alpha_d >>

\* every value mul_alpha_sz_max can return, log_alpha_d = 0 included, where
\* the high word is shifted by the width of the word
mul_alpha_sz_max_rets(n, alpha_n, log_alpha_d) ==
  LET p == mul_ext(n, alpha_n)
  IN  IF p.h \div Pow2(log_alpha_d) # 0 THEN { C_SIZE_MAX }
      ELSE { Word((p.l \div Pow2(log_alpha_d)) + hs) :
               hs \in shift_left(p.h, C_FULL_BIT - log_alpha_d) }

RECURSIVE BitLen(_)
BitLen(n) == IF n = 0 THEN 0 ELSE 1 + BitLen(n \div 2)

\* an is_overflow that refuses a prime that fills the word
M_is_overflow_at_width(start, count) ==
  BitLen(At(C_PRIME_PARTS, start + (count - 1))) + (count - 1) * C_BUILD_SHIFT
    >= C_FULL_BIT

is_overflow(start, count) ==
  BitLen(At(C_PRIME_PARTS, start + (count - 1))) + (count - 1) * C_BUILD_SHIFT
    > C_FULL_BIT

\* the parts are OR-ed at disjoint bit positions: the OR is their sum
RECURSIVE BuildFrom(_, _, _)
BuildFrom(start, count, i) ==
  IF i >= count THEN 0
  ELSE Word(At(C_PRIME_PARTS, start + i) * Pow2(i * C_BUILD_SHIFT))
       + BuildFrom(start, count, i + 1)

build_prime(start, count) == BuildFrom(start, count, 0)

\* an incr_count that moves the index and the bound and leaves the count
M_incr_stale_count(ht) ==
  LET ix1 == ht.count_ix + At(C_PARTS_PER_PRIME, ht.group_ix)
      g1  == IF ix1 = At(C_PARTS_ACC_COUNTS, ht.group_ix)
             THEN ht.group_ix + 1 ELSE ht.group_ix
      h1  == [ht EXCEPT !.count_ix = ix1, !.group_ix = g1]
  IN  IF ix1 = C_PRIME_PARTS_COUNT
      THEN [ht |-> h1, ret |-> 0]
      ELSE IF is_overflow(ix1, At(C_PARTS_PER_PRIME, g1))
      THEN [ht |-> [h1 EXCEPT !.count_ix = C_SIZE_MAX], ret |-> 0]
      ELSE LET c == build_prime(ix1, At(C_PARTS_PER_PRIME, g1))
           IN  [ht |-> [h1 EXCEPT !.max_num_elts =
                                     mul_alpha_sz_max(c, ht.alpha_n, ht.log_alpha_d)],
                ret |-> 1]

\* returns the table fields and ret, the function's return value
incr_count(ht) ==
  LET ix1 == ht.count_ix + At(C_PARTS_PER_PRIME, ht.group_ix)
      g1  == IF ix1 = At(C_PARTS_ACC_COUNTS, ht.group_ix)
             THEN ht.group_ix + 1 ELSE ht.group_ix
      h1  == [ht EXCEPT !.count_ix = ix1, !.group_ix = g1]
  IN  IF ix1 = C_PRIME_PARTS_COUNT
      THEN [ht |-> h1, ret |-> 0]
      ELSE IF is_overflow(ix1, At(C_PARTS_PER_PRIME, g1))
      THEN [ht |-> [h1 EXCEPT !.count_ix = C_SIZE_MAX], ret |-> 0]
      ELSE LET c == build_prime(ix1, At(C_PARTS_PER_PRIME, g1))
           IN  [ht |-> [h1 EXCEPT !.count = c,
                                  !.max_num_elts =
                                     mul_alpha_sz_max(c, ht.alpha_n, ht.log_alpha_d)],
                ret |-> 1]

\* the slot array key_elts holds count head pointers; the model keeps the
\* non-NULL ones, every other slot of 0..count-1 is NULL
Slot(key_elts, ix) == IF ix \in DOMAIN key_elts THEN key_elts[ix] ELSE NULL

SetSlot(key_elts, ix, head) ==
  IF head = NULL THEN Restrict(key_elts, DOMAIN key_elts \ {ix})
  ELSE [i \in DOMAIN key_elts \cup {ix} |-> IF i = ix THEN head ELSE key_elts[i]]

EmptySlots == [i \in {} |-> NULL]

\* a grow that climbs the ladder two primes at a time
RECURSIVE M_grow_two_steps(_)
M_grow_two_steps(ht) ==
  IF ht.num_elts > ht.max_num_elts
  THEN LET r == incr_count(ht)
           q == IF r.ret = 1 THEN incr_count(r.ht) ELSE r
       IN  IF q.ret = 1 THEN M_grow_two_steps(q.ht) ELSE q.ht
  ELSE ht

\* a grow that takes one step up the ladder and stops
M_grow_one_step(ht) ==
  IF ht.num_elts > ht.max_num_elts THEN incr_count(ht).ht ELSE ht

\* while (num_elts > max_num_elts && incr_count(ht));
RECURSIVE GrowCount(_)
GrowCount(ht) ==
  IF ht.num_elts > ht.max_num_elts
  THEN LET r == incr_count(ht)
       IN  IF r.ret = 1 THEN GrowCount(r.ht) ELSE r.ht
  ELSE ht

MinOf(S) == CHOOSE x \in S : \A y \in S : x <= y

\* a grow that releases the nodes of the previous slots with the slots
M_rehash_releases(prev_key_elts, ht, mem) ==
  [ht |-> ht, mem |-> Restrict(mem, {})]

\* the loop over the previous slots in index order, each drained from its head
RECURSIVE Rehash(_, _, _)
Rehash(prev_key_elts, ht, mem) ==
  IF DOMAIN prev_key_elts = {} THEN [ht |-> ht, mem |-> mem]
  ELSE LET i    == MinOf(DOMAIN prev_key_elts)
           node == prev_key_elts[i]
           r    == dll_remove(mem, node, node)
           ix   == hash(ht, r.mem[node].key)
           p    == dll_prepend(r.mem, Slot(ht.key_elts, ix), node)
       IN  Rehash(SetSlot(prev_key_elts, i, r.head),
                  [ht EXCEPT !.key_elts = SetSlot(ht.key_elts, ix, p.head)],
                  p.mem)

ht_grow(ht, mem) ==
  LET h1 == GrowCount(ht)
  IN  IF ht.count = h1.count THEN [ht |-> h1, mem |-> mem]
      ELSE Rehash(ht.key_elts, [h1 EXCEPT !.key_elts = EmptySlots], mem)

\* memcpy(dll_elt_ptr(ht->ll, node), elt, ht->elt_size) of an update
M_copy_elt_skipped(mem, node, elt) == mem

copy_elt(mem, node, elt) == [mem EXCEPT ![node].elt = elt]

\* an insert that takes every key for a new one
M_insert_always_prepend(ht, mem, key, elt) ==
  LET ix   == hash(ht, key)
      head == Slot(ht.key_elts, ix)
      p    == dll_prepend_new(mem, head, key, elt)
  IN  [ht  |-> [ht EXCEPT !.key_elts = SetSlot(ht.key_elts, ix, p.head),
                          !.num_elts = Word(ht.num_elts + 1)],
       mem |-> p.mem,
       freed |-> << >>]

\* an insert whose update overwrites the element without free_elt
M_insert_update_no_free(ht, mem, key, elt) ==
  LET ix   == hash(ht, key)
      head == Slot(ht.key_elts, ix)
      node == dll_search_key(mem, head, key)
  IN  IF node = NULL THEN M_insert_always_prepend(ht, mem, key, elt)
      ELSE [ht |-> ht, mem |-> copy_elt(mem, node, elt), freed |-> << >>]

\* an insert that takes no new element once the ladder is closed
M_insert_full_when_closed(ht, mem, key, elt) ==
  IF ht.count_ix = C_SIZE_MAX /\ ht.num_elts >= ht.max_num_elts
  THEN [ht |-> ht, mem |-> mem, freed |-> << >>]
  ELSE M_insert_update_no_free(ht, mem, key, elt)

ht_divchn_insert(ht, mem, key, elt) ==
  LET ix   == hash(ht, key)
      head == Slot(ht.key_elts, ix)
      node == dll_search_key(mem, head, key)
      s1   == IF node = NULL
              THEN LET p == dll_prepend_new(mem, head, key, elt)
                   IN  [ht  |-> [ht EXCEPT !.key_elts = SetSlot(ht.key_elts, ix, p.head),
                                           !.num_elts = Word(ht.num_elts + 1)],
                        mem |-> p.mem,
                        freed |-> << >>]
              ELSE [ht |-> ht,
                    mem |-> copy_elt(mem, node, elt),
                    freed |-> IF ht.free_elt # NULL THEN << mem[node].elt >>
                              ELSE << >>]
  IN  IF s1.ht.num_elts > s1.ht.max_num_elts
         /\ s1.ht.count_ix # C_SIZE_MAX
         /\ s1.ht.count_ix # C_PRIME_PARTS_COUNT
      THEN LET g == ht_grow(s1.ht, s1.mem)
           IN  [ht |-> g.ht, mem |-> g.mem, freed |-> s1.freed]
      ELSE s1

\* the node whose element region the returned pointer addresses, or NULL
ht_divchn_search(ht, mem, key) ==
  dll_search_key(mem, Slot(ht.key_elts, hash(ht, key)), key)

M_remove_no_copy_out(ht, mem, key, out) ==
  LET ix   == hash(ht, key)
      head == Slot(ht.key_elts, ix)
      node == dll_search_key(mem, head, key)
  IN  IF node # NULL
      THEN LET d == dll_delete(mem, head, node, NULL)
           IN  [ht  |-> [ht EXCEPT !.key_elts = SetSlot(ht.key_elts, ix, d.head),
                                   !.num_elts = Word(ht.num_elts - 1)],
                mem |-> d.mem,
                out |-> out,
                freed |-> d.freed]
      ELSE [ht |-> ht, mem |-> mem, out |-> out, freed |-> << >>]

\* a remove that goes back to the first prime of the ladder
M_remove_shrinks(ht, mem, key, out) ==
  LET ix   == hash(ht, key)
      head == Slot(ht.key_elts, ix)
      node == dll_search_key(mem, head, key)
  IN  IF node # NULL
      THEN LET d == dll_delete(mem, head, node, NULL)
           IN  [ht  |-> [ht EXCEPT !.key_elts = SetSlot(ht.key_elts, ix, d.head),
                                   !.num_elts = Word(ht.num_elts - 1),
                                   !.count_ix = 0,
                                   !.count = build_prime(0, At(C_PARTS_PER_PRIME, 0))],
                mem |-> d.mem,
                out |-> mem[node].elt,
                freed |-> d.freed]
      ELSE [ht |-> ht, mem |-> mem, out |-> out, freed |-> << >>]

\* a remove that counts an element out whether or not the key was found
M_remove_unguarded(ht, mem, key, out) ==
  LET ix   == hash(ht, key)
      head == Slot(ht.key_elts, ix)
      node == dll_search_key(mem, head, key)
      d    == dll_delete(mem, head, node, NULL)
  IN  [ht  |-> [ht EXCEPT !.key_elts = SetSlot(ht.key_elts, ix, d.head),
                          !.num_elts = Word(ht.num_elts - 1)],
       mem |-> d.mem,
       out |-> IF node # NULL THEN mem[node].elt ELSE out,
       freed |-> d.freed]

\* out is the block the caller passes as elt
ht_divchn_remove(ht, mem, key, out) ==
  LET ix   == hash(ht, key)
      head == Slot(ht.key_elts, ix)
      node == dll_search_key(mem, head, key)
  IN  IF node # NULL
      THEN LET d == dll_delete(mem, head, node, NULL)
           IN  [ht  |-> [ht EXCEPT !.key_elts = SetSlot(ht.key_elts, ix, d.head),
                                   !.num_elts = Word(ht.num_elts - 1)],
                mem |-> d.mem,
                out |-> mem[node].elt,
                freed |-> d.freed]
      ELSE [ht |-> ht, mem |-> mem, out |-> out, freed |-> << >>]

M_delete_keeps_num_elts(ht, mem, key) ==
  LET ix   == hash(ht, key)
      head == Slot(ht.key_elts, ix)
      node == dll_search_key(mem, head, key)
  IN  IF node # NULL
      THEN LET d == dll_delete(mem, head, node, ht.free_elt)
           IN  [ht  |-> [ht EXCEPT !.key_elts = SetSlot(ht.key_elts, ix, d.head)],
                mem |-> d.mem,
                freed |-> d.freed]
      ELSE [ht |-> ht, mem |-> mem, freed |-> << >>]

\* a delete that counts the element out and leaves its node in the chain
M_delete_keeps_node(ht, mem, key) ==
  IF ht_divchn_search(ht, mem, key) = NULL
  THEN [ht |-> ht, mem |-> mem, freed |-> << >>]
  ELSE [ht |-> [ht EXCEPT !.num_elts = Word(ht.num_elts - 1)],
        mem |-> mem, freed |-> << >>]

ht_divchn_delete(ht, mem, key) ==
  LET ix   == hash(ht, key)
      head == Slot(ht.key_elts, ix)
      node == dll_search_key(mem, head, key)
  IN  IF node # NULL
      THEN LET d == dll_delete(mem, head, node, ht.free_elt)
           IN  [ht  |-> [ht EXCEPT !.key_elts = SetSlot(ht.key_elts, ix, d.head),
                                   !.num_elts = Word(ht.num_elts - 1)],
                mem |-> d.mem,
                freed |-> d.freed]
      ELSE [ht |-> ht, mem |-> mem, freed |-> << >>]

\* dll_free of every slot in index order, then the slot array is released
RECURSIVE FreeSlots(_, _, _)
FreeSlots(key_elts, mem, free_elt) ==
  IF DOMAIN key_elts = {} THEN [mem |-> mem, freed |-> << >>]
  ELSE LET i == MinOf(DOMAIN key_elts)
           d == dll_free(mem, key_elts[i], free_elt)
           r == FreeSlots(SetSlot(key_elts, i, d.head), d.mem, free_elt)
       IN  [mem |-> r.mem, freed |-> d.freed \o r.freed]

ht_divchn_free(ht, mem) ==
  LET r == FreeSlots(ht.key_elts, mem, ht.free_elt)
  IN  [ht    |-> [ht EXCEPT !.key_elts = EmptySlots],
       mem   |-> r.mem,
       freed |-> r.freed]

(***************************************************************************)
(* ht_divchn_init.  The loop that raises the count for min_num calls       *)
(* incr_count before alpha_n and log_alpha_d are stored into the table, so *)
(* incr_count reads whatever the caller's block held: junk.                *)
(***************************************************************************)
RECURSIVE InitCount(_, _)
InitCount(ht, min_num) ==
  IF min_num > ht.max_num_elts
  THEN LET r == incr_count(ht)
       IN  IF r.ret = 1 THEN InitCount(r.ht, min_num) ELSE r.ht
  ELSE ht

ht_divchn_init(min_num, alpha_n, log_alpha_d, free_elt, junk) ==
  LET c  == build_prime(0, At(C_PARTS_PER_PRIME, 0))
      h0 == [group_ix     |-> 0,
             count_ix     |-> 0,
             count        |-> c,
             max_num_elts |-> mul_alpha_sz_max(c, alpha_n, log_alpha_d),
             num_elts     |-> 0,
             alpha_n      |-> junk[1],
             log_alpha_d  |-> junk[2],
             key_elts     |-> EmptySlots,
             free_elt     |-> free_elt]
      h1 == InitCount(h0, min_num)
  IN  [h1 EXCEPT !.num_elts = 0, !.alpha_n = alpha_n, !.log_alpha_d = log_alpha_d]

(***************************************************************************)
(* The callers' choices at initialisation: the load factor bound           *)
(* alpha_n / 2^log_alpha_d, min_num, and the prior contents of the table   *)
(* block.                                                                  *)
(***************************************************************************)
Alphas  == { << 1, 10 >>, << 1, 11 >>, << 1, 15 >> }
MinNums == { 0 }
Junk    == { << 0, 1 >> }

\* free_elt of the callers: NULL for elements copied into the table, or the
\* function that releases the block an element points to
free_uint_ptr == 1
FreeElts == { NULL, free_uint_ptr }

\* the wider choices at initialisation: min_num above the first bound, and
\* table blocks that held other values, or the same, in the alpha fields
AlphasI  == { << 1, 10 >>, << 1, 15 >> }
MinNumsI == { 0, 2, 5 }
JunkI    == { << 0, 1 >>, << 1, 10 >>, << 1, 15 >>, << 65535, 0 >> }

(***************************************************************************)
(* State of the single-threaded table and of its caller.  The caller       *)
(* keeps, like the repository's tests, the outcome of the comparisons it   *)
(* made on what the last call returned.                                    *)
(***************************************************************************)
VARIABLES
  ht,      \* the ht_divchn_t block
  mem,     \* the list nodes in use
  last,    \* per key, the element of its last insert, NoElt once removed or deleted
  chk,     \* the caller's comparisons after the last call
  pay,     \* the blocks the elements point to that are allocated (free_elt not NULL)
  bad,     \* a block was released that was not allocated
  min_num, \* the min_num that ht_divchn_init was called with
  calc,    \* a call of an auxiliary function: its arguments and what it returned
  pht,     \* the multithreaded table block; key_elts is the index in arrs of the bucket array
  pmem,    \* the list nodes in use of the multithreaded table
  arrs,    \* every bucket array allocated so far: its length, its slots, whether it was freed
  gate_lock, \* the gate lock (G)
  key_locks, \* the slot locks, one per stripe (S)
  th,      \* per thread: its operation, its position in it and its locals
  lastw,   \* per key, the element of the last insert that held the key's slot lock
  fault    \* the process has faulted on an access to freed memory

seqvars == << ht, mem, last, chk, pay, bad, min_num >>
ptvars == << pht, pmem, arrs, gate_lock, key_locks, th, lastw, fault >>
vars == << seqvars, ptvars, calc >>

(***************************************************************************)
(* The multithreaded table at construction: the table block of             *)
(* ht_divchn_init with its first bucket array, every lock free, every      *)
(* thread before its operation.  A lock is held by one writer or by a set  *)
(* of readers.                                                             *)
(***************************************************************************)
Threads == 1..NumThreads
Locks == 0..(NumLocks - 1)

Unlocked == [w |-> NULL, r |-> {}]

Idle == [op |-> "none", pc |-> "idle", batch |-> << >>, keys |-> << >>,
         elt |-> NoElt, snap |-> NULL, delta |-> 0, nlock |-> 0, out |-> NoElt,
         freed |-> << >>]

PTAlpha == << 1, 11 >>

ht_divchn_pthread_init(alpha_n, log_alpha_d, free_elt, junk) ==
  LET h == ht_divchn_init(0, alpha_n, log_alpha_d, free_elt, junk)
  IN  [tbl  |-> [h EXCEPT !.key_elts = 1],
       arrs |-> << [count |-> h.count, slots |-> EmptySlots, freed |-> FALSE] >>]

InitPT ==
  /\ \E j \in Junk :
       LET c == ht_divchn_pthread_init(PTAlpha[1], PTAlpha[2], ht.free_elt, j)
       IN  pht = c.tbl /\ arrs = c.arrs
  /\ pmem = [a \in {} |-> NULL]
  /\ gate_lock = Unlocked
  /\ key_locks = [i \in Locks |-> Unlocked]
  /\ th = [t \in Threads |-> Idle]
  /\ lastw = [k \in Keys |-> NoElt]
  /\ fault = FALSE

NoChk == [call |-> "none", null |-> TRUE, elt_eq |-> TRUE, cnt_eq |-> TRUE,
          same |-> FALSE]

NoCalc == [fn |-> "none", n |-> 0, alpha_n |-> 0, log_alpha_d |-> 0,
           done |-> FALSE, ret |-> 0]

InitWith(As, Ms, Js) ==
  /\ \E a \in As, m \in Ms, j \in Js, f \in FreeElts :
       /\ ht = ht_divchn_init(m, a[1], a[2], f, j)
       /\ min_num = m
  /\ mem = [a \in {} |-> NULL]
  /\ last = [k \in Keys |-> NoElt]
  /\ chk = NoChk
  /\ pay = {}
  /\ bad = FALSE
  /\ InitPT

Init == InitWith(Alphas, MinNums, Junk) /\ calc = NoCalc

\* free_elt is called on the blocks of a log in order: each is released,
\* and a block that is not allocated is a double release
RECURSIVE RunFree(_, _)
RunFree(pb, freed) ==
  IF freed = << >> THEN pb
  ELSE RunFree([pay |-> pb.pay \ {freed[1]},
                bad |-> pb.bad \/ freed[1] \notin pb.pay],
               Tail(freed))

\* with free_elt not NULL the element e of an insert is the address of a
\* block the caller has just allocated
NewPay(e) == IF ht.free_elt # NULL THEN pay \cup {e} ELSE pay

\* the caller releases the block of an element that remove handed back
Handed(out) == IF ht.free_elt # NULL /\ out # NoElt THEN << out >> ELSE << >>

\* malloc_perror returns: an address is left
CanAlloc(m) == Addr \ DOMAIN m # {}

\* the blocks left allocated after the calls of free_elt and of the caller
Released(p) == pay' = p.pay /\ bad' = p.bad

\* s is what ht_divchn_insert returns and n the node search found before
InsertDone(s, n, k, e) ==
  /\ ht' = s.ht /\ mem' = s.mem
  /\ Released(RunFree([pay |-> NewPay(e), bad |-> bad], s.freed))
  /\ last' = [last EXCEPT ![k] = e]
  /\ chk' = [NoChk EXCEPT !.call = IF n = NULL THEN "insert" ELSE "update",
                           !.same = (n # NULL /\ mem[n].elt = e)]
  /\ UNCHANGED << ptvars, calc, min_num >>

Insert(k, e) ==
  /\ CanAlloc(mem)
  /\ ht.free_elt # NULL => e \notin pay
  /\ InsertDone(ht_divchn_insert(ht, mem, k, e), ht_divchn_search(ht, mem, k), k, e)

\* the caller compares the element found with the one it inserted last
SearchDone(n, k) ==
  /\ chk' = [NoChk EXCEPT !.call = "search",
                           !.null = (n = NULL),
                           !.elt_eq = (n # NULL /\ mem[n].elt = last[k])]
  /\ UNCHANGED << ht, mem, last, pay, bad >>
  /\ UNCHANGED << ptvars, calc, min_num >>

Search(k) == SearchDone(ht_divchn_search(ht, mem, k), k)

\* the caller passes a block holding NoElt and compares it afterwards
RemoveDone(s, n, k) ==
  /\ ht' = s.ht /\ mem' = s.mem
  /\ Released(RunFree(RunFree([pay |-> pay, bad |-> bad], s.freed), Handed(s.out)))
  /\ chk' = [NoChk EXCEPT !.call = "remove",
                           !.null = (n = NULL),
                           !.elt_eq = (s.out = last[k])]
  /\ last' = [last EXCEPT ![k] = NoElt]
  /\ UNCHANGED << ptvars, calc, min_num >>

Remove(k) ==
  RemoveDone(ht_divchn_remove(ht, mem, k, NoElt), ht_divchn_search(ht, mem, k), k)

DeleteDone(s, n, k) ==
  /\ ht' = s.ht /\ mem' = s.mem
  /\ Released(RunFree([pay |-> pay, bad |-> bad], s.freed))
  /\ last' = [last EXCEPT ![k] = NoElt]
  /\ chk' = [NoChk EXCEPT !.call = "delete", !.null = (n = NULL)]
  /\ UNCHANGED << ptvars, calc, min_num >>

Delete(k) ==
  DeleteDone(ht_divchn_delete(ht, mem, k), ht_divchn_search(ht, mem, k), k)

\* insert(k, e); remove(k, out); search(k), and the caller's comparisons
RoundTripDone(s1, s2, n, k, e) ==
  /\ ht' = s2.ht /\ mem' = s2.mem
  /\ Released(RunFree([pay |-> NewPay(e), bad |-> bad],
                      s1.freed \o s2.freed \o Handed(s2.out)))
  /\ chk' = [call   |-> "roundtrip",
             null   |-> n = NULL,
             elt_eq |-> s2.out = e,
             cnt_eq |-> (last[k] = NoElt) => (s2.ht.num_elts = ht.num_elts),
             same   |-> FALSE]
  /\ last' = [last EXCEPT ![k] = NoElt]
  /\ UNCHANGED << ptvars, calc, min_num >>

RoundTripRemove(s1, s2, k, e) ==
  RoundTripDone(s1, s2, ht_divchn_search(s2.ht, s2.mem, k), k, e)

RoundTripInsert(s1, k, e) ==
  RoundTripRemove(s1, ht_divchn_remove(s1.ht, s1.mem, k, NoElt), k, e)

RoundTrip(k, e) ==
  /\ CanAlloc(mem)
  /\ ht.free_elt # NULL => e \notin pay
  /\ RoundTripInsert(ht_divchn_insert(ht, mem, k, e), k, e)

Next ==
  \/ \E k \in Keys, e \in Elts : Insert(k, e)
  \/ \E k \in Keys : Search(k)
  \/ \E k \in Keys : Remove(k)
  \/ \E k \in Keys : Delete(k)
  \/ \E k \in Keys, e \in Elts : RoundTrip(k, e)

Spec == Init /\ [][Next]_vars

(***************************************************************************)
(* The table with ht_divchn_free: the caller makes no call on a table it   *)
(* has freed.                                                              *)
(***************************************************************************)
FreeDone(s) ==
  /\ ht' = s.ht /\ mem' = s.mem
  /\ Released(RunFree([pay |-> pay, bad |-> bad], s.freed))
  /\ last' = [k \in Keys |-> NoElt]
  /\ chk' = [NoChk EXCEPT !.call = "free"]
  /\ UNCHANGED << ptvars, calc, min_num >>

Free ==
  /\ chk.call # "free"
  /\ FreeDone(ht_divchn_free(ht, mem))

NextD ==
  \/ chk.call # "free" /\ Next
  \/ Free

SpecD == Init /\ [][NextD]_vars

(***************************************************************************)
(* mul_alpha_sz_max called on its own: words n and alpha_n with the edges  *)
(* of the half-word and of the word, and every log_alpha_d below the width *)
(* of the word.                                                            *)
(***************************************************************************)
MulNs     == { 0, 1, 2, 255, 256, 257, 1543, 32767, 32768, 48673, 65534, 65535 }
MulAlphas == { 1, 2, 3, 255, 256, 257, 32768, 65535 }
MulLogs   == 0..(C_FULL_BIT - 1)

InitMul ==
  /\ InitWith({ << 1, 10 >> }, MinNums, Junk)
  /\ \E n \in MulNs, a \in MulAlphas, d \in MulLogs :
       calc = [fn |-> "mul_alpha_sz_max", n |-> n, alpha_n |-> a,
               log_alpha_d |-> d, done |-> FALSE, ret |-> 0]

MulAlpha ==
  /\ calc.fn = "mul_alpha_sz_max" /\ ~calc.done
  /\ \E v \in mul_alpha_sz_max_rets(calc.n, calc.alpha_n, calc.log_alpha_d) :
       calc' = [calc EXCEPT !.done = TRUE, !.ret = v]
  /\ UNCHANGED << seqvars, ptvars >>

SpecMul == InitMul /\ [][MulAlpha]_vars

(***************************************************************************)
(* incr_count called on its own, on a table at each position of the        *)
(* ladder: the index of the first part of a prime and the index of its     *)
(* group.  The table of the model reaches the positions whose primes its   *)
(* word holds; the positions beyond are those of a table on a wider word,  *)
(* where the model keeps the low word of the prime as count of slots.      *)
(***************************************************************************)
GroupStart(g) == IF g = 0 THEN 0 ELSE At(C_PARTS_ACC_COUNTS, g - 1)

Positions ==
  { << ix, g >> \in (0..(C_PRIME_PARTS_COUNT - 1)) \X (0..3) :
      /\ GroupStart(g) <= ix /\ ix < At(C_PARTS_ACC_COUNTS, g)
      /\ (ix - GroupStart(g)) % At(C_PARTS_PER_PRIME, g) = 0 }

TableAt(pos, alpha) ==
  LET c == At(C_PRIME_PARTS, pos[1])
  IN  [ht_divchn_init(0, alpha[1], alpha[2], NULL, alpha)
         EXCEPT !.count_ix = pos[1], !.group_ix = pos[2], !.count = c,
                !.max_num_elts = mul_alpha_sz_max(c, alpha[1], alpha[2])]

InitAdv ==
  /\ InitWith({ << 1, 10 >> }, MinNums, Junk)
  /\ \E pos \in Positions, alpha \in AlphasI :
       calc = [fn |-> "incr_count", h |-> TableAt(pos, alpha),
               done |-> FALSE, ret |-> 0, out |-> TableAt(pos, alpha)]

Advanced(r) == calc' = [calc EXCEPT !.done = TRUE, !.ret = r.ret, !.out = r.ht]

Advance ==
  /\ calc.fn = "incr_count" /\ ~calc.done
  /\ Advanced(incr_count(calc.h))
  /\ UNCHANGED << seqvars, ptvars >>

SpecAdv == InitAdv /\ [][Advance]_vars

(***************************************************************************)
(* hash called on its own with rdc_key NULL: keys of every size from one   *)
(* byte, sizes that sizeof(size_t) does not divide included, with bytes    *)
(* at the edges of the byte.                                               *)
(***************************************************************************)
KeyBytes == { 0, 1, 255 }
KeyBlocks == UNION { [1..n -> KeyBytes] : n \in 1..MaxKeyLen }

InitKey ==
  /\ InitWith({ << 1, 10 >> }, MinNums, Junk)
  /\ \E key \in KeyBlocks :
       calc = [fn |-> "hash", key |-> key, done |-> FALSE, ret |-> 0, ix |-> 0]

Hashed(std_key) ==
  calc' = [calc EXCEPT !.done = TRUE, !.ret = std_key, !.ix = std_key % ht.count]

Hash ==
  /\ calc.fn = "hash" /\ ~calc.done
  /\ Hashed(convert_std_key(calc.key))
  /\ UNCHANGED << seqvars, ptvars >>

SpecKey == InitKey /\ [][Hash]_vars

(***************************************************************************)
(* The list functions called on their own on one list: head is the head    *)
(* pointer of the caller, in the set of the nodes the caller has put in    *)
(* the list and not taken out.  The caller prepends and appends a node     *)
(* that is not in the list, and removes and deletes a node that is.        *)
(***************************************************************************)
InitL ==
  /\ InitWith({ << 1, 10 >> }, MinNums, Junk)
  /\ calc = [fn |-> "dll", call |-> "none", head |-> NULL, node |-> NULL,
             in |-> {}, freed |-> << >>]

ListDone(call, node, r, in, freed) ==
  /\ mem' = r.mem
  /\ calc' = [calc EXCEPT !.call = call, !.node = node, !.head = r.head,
                          !.in = in, !.freed = freed]
  /\ UNCHANGED << ht, last, chk, pay, bad, min_num, ptvars >>

ListPrependNew(key, elt) ==
  /\ Cardinality(DOMAIN mem) < MaxNodes
  /\ ListDone("prepend_new", Alloc(mem),
              dll_prepend_new(mem, calc.head, key, elt),
              calc.in \cup {Alloc(mem)}, << >>)

ListAppendNew(key, elt) ==
  /\ Cardinality(DOMAIN mem) < MaxNodes
  /\ ListDone("append_new", Alloc(mem),
              dll_append_new(mem, calc.head, key, elt),
              calc.in \cup {Alloc(mem)}, << >>)

ListPrepend(node) ==
  /\ node \in DOMAIN mem \ calc.in
  /\ ListDone("prepend", node, dll_prepend(mem, calc.head, node),
              calc.in \cup {node}, << >>)

ListAppend(node) ==
  /\ node \in DOMAIN mem \ calc.in
  /\ ListDone("append", node, dll_append(mem, calc.head, node),
              calc.in \cup {node}, << >>)

ListRemove(node) ==
  /\ node \in calc.in
  /\ ListDone("remove", node, dll_remove(mem, calc.head, node),
              calc.in \ {node}, << >>)

ListDeleted(node, r) == ListDone("delete", node, r, calc.in \ {node}, r.freed)

ListDelete(node) ==
  /\ node \in calc.in
  /\ ListDeleted(node, dll_delete(mem, calc.head, node, ht.free_elt))

ListFreed(r) == ListDone("free", NULL, r, {}, r.freed)

ListFree == ListFreed(dll_free(mem, calc.head, ht.free_elt))

NextL ==
  \/ \E key \in Keys, elt \in Elts : ListPrependNew(key, elt)
  \/ \E key \in Keys, elt \in Elts : ListAppendNew(key, elt)
  \/ \E node \in Addr : ListPrepend(node)
  \/ \E node \in Addr : ListAppend(node)
  \/ \E node \in Addr : ListRemove(node)
  \/ \E node \in Addr : ListDelete(node)
  \/ ListFree

SpecL == InitL /\ [][NextL]_vars

(***************************************************************************)
(* The ladder on words of 16, 32 and 64 bits.  A prime is kept as the      *)
(* sequence of the parts build_prime reads, the part at index i of the     *)
(* sequence shifted left by i * C_BUILD_SHIFT, and each call records the   *)
(* indices at which it reads C_PRIME_PARTS (parts_read) and                *)
(* C_PARTS_PER_PRIME and C_PARTS_ACC_COUNTS (groups_read).  AllOnes stands *)
(* for C_SIZE_MAX, (size_t)-1, of each width.                              *)
(***************************************************************************)
Widths == { 16, 32, 64 }
AllOnes == -1

\* an is_overflow that finds room for every prime
M_is_overflow_at_never(w, start, count) == FALSE

\* is_overflow on a word of w bits
is_overflow_at(w, start, count) ==
  BitLen(At(C_PRIME_PARTS, start + (count - 1))) + (count - 1) * C_BUILD_SHIFT > w

\* the parts build_prime reads, in the order of its loop
build_prime_parts(start, count) ==
  [i \in 1..count |-> At(C_PRIME_PARTS, start + i - 1)]

\* ht_divchn_init up to its loop: the first prime
FirstPrime(w) ==
  [fn |-> "ladder", w |-> w, by |-> "init", count_ix |-> 0, group_ix |-> 0,
   parts |-> build_prime_parts(0, At(C_PARTS_PER_PRIME, 0)), ret |-> 1,
   groups_read |-> {0},
   parts_read |-> 0..(At(C_PARTS_PER_PRIME, 0) - 1)]

\* incr_count on a word of w bits, from the position of c
incr_count_at(w, c) ==
  LET ix1 == c.count_ix + At(C_PARTS_PER_PRIME, c.group_ix)
      g1  == IF ix1 = At(C_PARTS_ACC_COUNTS, c.group_ix)
             THEN c.group_ix + 1 ELSE c.group_ix
  IN  IF ix1 = C_PRIME_PARTS_COUNT
      THEN [c EXCEPT !.count_ix = ix1, !.group_ix = g1, !.ret = 0,
                     !.groups_read = {c.group_ix}, !.parts_read = {}]
      ELSE IF is_overflow_at(w, ix1, At(C_PARTS_PER_PRIME, g1))
      THEN [c EXCEPT !.count_ix = AllOnes, !.group_ix = g1, !.ret = 0,
                     !.groups_read = {c.group_ix, g1},
                     !.parts_read = {ix1 + At(C_PARTS_PER_PRIME, g1) - 1}]
      ELSE [c EXCEPT !.count_ix = ix1, !.group_ix = g1, !.ret = 1,
                     !.parts = build_prime_parts(ix1, At(C_PARTS_PER_PRIME, g1)),
                     !.groups_read = {c.group_ix, g1},
                     !.parts_read = ix1..(ix1 + At(C_PARTS_PER_PRIME, g1) - 1)]

InitW ==
  /\ InitWith({ << 1, 10 >> }, MinNums, Junk)
  /\ \E w \in Widths : calc = FirstPrime(w)

\* one more turn of the loop of ht_divchn_init, or of the loop of ht_grow
\* once ht_divchn_init has returned; neither calls incr_count after it
\* has returned 0
Climbed(by, c) == calc' = [c EXCEPT !.by = by]

Climb(by) ==
  /\ calc.fn = "ladder" /\ calc.ret = 1
  /\ by = "init" => calc.by = "init"
  /\ Climbed(by, incr_count_at(calc.w, calc))
  /\ UNCHANGED << seqvars, ptvars >>

\* ht_divchn_init returns with the ladder open
InitReturns ==
  /\ calc.fn = "ladder" /\ calc.ret = 1 /\ calc.by = "init"
  /\ calc' = [calc EXCEPT !.by = "grow", !.groups_read = {}, !.parts_read = {}]
  /\ UNCHANGED << seqvars, ptvars >>

NextW ==
  \/ Climb("init")
  \/ Climb("grow")
  \/ InitReturns

SpecW == InitW /\ [][NextW]_vars

(***************************************************************************)
(* The table initialised with the wider choices.                           *)
(***************************************************************************)
InitI == InitWith(AlphasI, MinNumsI, JunkI) /\ calc = NoCalc

SpecI == InitI /\ [][Next]_vars

(***************************************************************************)
(* The multithreaded table.  Each thread runs one operation: a batch       *)
(* insert, a search, a remove or a delete.  An operation is a sequence of  *)
(* steps, one per lock acquisition and one per critical section.           *)
(*                                                                         *)
(*   gate_sh   : waits for the gate lock in shared mode                    *)
(*   snap      : holds it shared, about to copy (count, key_elts)          *)
(*   slot      : waits for the slot lock of the next stripe of its keys    *)
(*   work      : holds that slot lock, in the chains of its snapshot       *)
(*   gate_ex   : waits for the gate lock in exclusive mode                 *)
(*   count     : holds it exclusively, about to add its delta to num_elts  *)
(*   grow_lock : growing, acquires the slot locks in stripe order          *)
(*   migrate   : growing, holds every lock, moves the nodes                *)
(***************************************************************************)
\* a shared mode that admits one reader at a time
M_lock_sh_one_reader(l) == l.w = NULL /\ l.r = {}

lock_sh_free(l) == l.w = NULL
\* an exclusive mode that does not wait for the readers
M_lock_ex_over_readers(l) == l.w = NULL

lock_ex_free(l) == l.w = NULL /\ l.r = {}
lock_sh(l, t) == [l EXCEPT !.r = @ \cup {t}]
unlock_sh(l, t) == [l EXCEPT !.r = @ \ {t}]
\* an exclusive acquisition that enters as one more reader
M_lock_ex_as_reader(l, t) == [l EXCEPT !.r = @ \cup {t}]

lock_ex(l, t) == [l EXCEPT !.w = t]
unlock_ex(l, t) == [l EXCEPT !.w = NULL]

\* sequences of distinct keys, the batches the callers pass
Batches == { << k >> : k \in Keys } \cup
           { << p[1], p[2] >> : p \in { q \in Keys \X Keys : q[1] # q[2] } }

\* stripe = (hash(key) mod M) mod P, under the bucket array a
stripe(a, key) == hash(a, key) % NumLocks

\* every key taken to be under the first slot lock
M_next_stripe_first(a, keys) == 0

NextStripe(a, keys) == MinOf({ stripe(a, keys[i]) : i \in 1..Len(keys) })

RECURSIVE Filter(_, _, _, _)
Filter(a, keys, s, keep) ==
  IF keys = << >> THEN << >>
  ELSE LET rest == Filter(a, Tail(keys), s, keep)
       IN  IF (stripe(a, keys[1]) = s) = keep THEN << keys[1] >> \o rest ELSE rest

\* one key of an operation, in the chain of its slot of the bucket array a;
\* r carries the array's slots, the nodes, the count delta, the out block,
\* the destructor and the log of the elements it was called on, each with
\* the key of its node
pt_key_op(op, a, r, key, elt) ==
  LET ix   == hash(a, key)
      head == Slot(r.slots, ix)
      node == dll_search_key(r.mem, head, key)
  IN  CASE op = "insert" ->
             IF node = NULL
             THEN LET p == dll_prepend_new(r.mem, head, key, elt)
                  IN  [r EXCEPT !.slots = SetSlot(r.slots, ix, p.head),
                                !.mem = p.mem,
                                !.delta = r.delta + 1]
             ELSE [r EXCEPT !.mem = copy_elt(r.mem, node, elt),
                            !.freed = IF r.free_elt # NULL
                                      THEN Append(@, [key |-> key,
                                                      elt |-> r.mem[node].elt])
                                      ELSE @]
        [] op = "search" ->
             IF node = NULL THEN r ELSE [r EXCEPT !.out = r.mem[node].elt]
        [] OTHER ->
             IF node = NULL THEN r
             ELSE LET d == dll_delete(r.mem, head, node, NULL)
                  IN  [r EXCEPT !.slots = SetSlot(r.slots, ix, d.head),
                                !.mem = d.mem,
                                !.delta = r.delta - 1,
                                !.out = IF op = "remove" THEN r.mem[node].elt
                                        ELSE r.out,
                                !.freed = IF op = "delete" /\ r.free_elt # NULL
                                          THEN Append(@, [key |-> key,
                                                          elt |-> r.mem[node].elt])
                                          ELSE @]

RECURSIVE pt_keys_op(_, _, _, _, _)
pt_keys_op(op, a, r, keys, elt) ==
  IF keys = << >> THEN r
  ELSE pt_keys_op(op, a, pt_key_op(op, a, r, keys[1], elt), Tail(keys), elt)

Start(t, op, batch, e) ==
  /\ ~fault
  /\ th[t].pc = "idle"
  /\ th' = [th EXCEPT ![t] = [Idle EXCEPT !.op = op, !.pc = "gate_sh",
                                          !.batch = batch, !.keys = batch,
                                          !.elt = e]]
  /\ UNCHANGED << pht, pmem, arrs, gate_lock, key_locks, lastw, fault >>

GateSh(t) ==
  /\ ~fault
  /\ th[t].pc = "gate_sh"
  /\ lock_sh_free(gate_lock)
  /\ gate_lock' = lock_sh(gate_lock, t)
  /\ th' = [th EXCEPT ![t].pc = "snap"]
  /\ UNCHANGED << pht, pmem, arrs, key_locks, lastw, fault >>

Snapshot(t) ==
  /\ ~fault
  /\ th[t].pc = "snap"
  /\ gate_lock' = unlock_sh(gate_lock, t)
  /\ th' = [th EXCEPT ![t].snap = pht.key_elts, ![t].pc = "slot"]
  /\ UNCHANGED << pht, pmem, arrs, key_locks, lastw, fault >>

SlotLock(t) ==
  /\ ~fault
  /\ th[t].pc = "slot"
  /\ LET s == NextStripe(arrs[th[t].snap], th[t].keys)
     IN  IF th[t].op = "search"
         THEN /\ lock_sh_free(key_locks[s])
              /\ key_locks' = [key_locks EXCEPT ![s] = lock_sh(@, t)]
         ELSE /\ lock_ex_free(key_locks[s])
              /\ key_locks' = [key_locks EXCEPT ![s] = lock_ex(@, t)]
  /\ th' = [th EXCEPT ![t].pc = "work"]
  /\ UNCHANGED << pht, pmem, arrs, gate_lock, lastw, fault >>

\* the keys of the next stripe, in the chains of the snapshot's bucket array
WorkOn(t) ==
  LET a == arrs[th[t].snap]
      s == NextStripe(a, th[t].keys)
  IN  [s    |-> s,
       mine |-> Filter(a, th[t].keys, s, TRUE),
       rest |-> Filter(a, th[t].keys, s, FALSE)]

Work(t) ==
  /\ ~fault
  /\ th[t].pc = "work"
  /\ LET id == th[t].snap
         w  == WorkOn(t)
         r  == pt_keys_op(th[t].op, arrs[id],
                          [slots |-> arrs[id].slots, mem |-> pmem,
                           delta |-> th[t].delta, out |-> th[t].out,
                           free_elt |-> pht.free_elt, freed |-> th[t].freed],
                          w.mine, th[t].elt)
     IN  /\ arrs' = [arrs EXCEPT ![id].slots = r.slots]
         /\ pmem' = r.mem
         /\ key_locks' = [key_locks EXCEPT ![w.s] =
                            IF th[t].op = "search" THEN unlock_sh(@, t)
                            ELSE unlock_ex(@, t)]
         /\ lastw' = IF th[t].op = "insert"
                     THEN [k \in Keys |->
                             IF \E i \in 1..Len(w.mine) : w.mine[i] = k
                             THEN th[t].elt ELSE lastw[k]]
                     ELSE lastw
         /\ th' = [th EXCEPT ![t].keys = w.rest,
                             ![t].delta = r.delta,
                             ![t].out = r.out,
                             ![t].freed = r.freed,
                             ![t].pc = IF w.rest # << >> THEN "slot"
                                       ELSE IF th[t].op = "search" THEN "done"
                                       ELSE "gate_ex"]
  /\ UNCHANGED << pht, gate_lock, fault >>

\* The bucket array of the snapshot was freed by a grow: the access is
\* undefined.  Either the block still reads and writes as it was left
\* (Work above), or the process faults.
WorkFault(t) ==
  /\ ~fault
  /\ th[t].pc = "work"
  /\ arrs[th[t].snap].freed
  /\ fault' = TRUE
  /\ UNCHANGED << pht, pmem, arrs, gate_lock, key_locks, th, lastw >>

GateEx(t) ==
  /\ ~fault
  /\ th[t].pc = "gate_ex"
  /\ lock_ex_free(gate_lock)
  /\ gate_lock' = lock_ex(gate_lock, t)
  /\ th' = [th EXCEPT ![t].pc = "count"]
  /\ UNCHANGED << pht, pmem, arrs, key_locks, lastw, fault >>

grow_needed(h) ==
  /\ h.num_elts > h.max_num_elts
  /\ h.count_ix # C_SIZE_MAX
  /\ h.count_ix # C_PRIME_PARTS_COUNT

Count(t) ==
  /\ ~fault
  /\ th[t].pc = "count"
  /\ LET h == [pht EXCEPT !.num_elts = Word(@ + th[t].delta + WordMod)]
     IN  /\ pht' = h
         /\ IF th[t].op = "insert" /\ grow_needed(h)
            THEN /\ th' = [th EXCEPT ![t].pc = "grow_lock"]
                 /\ UNCHANGED gate_lock
            ELSE /\ th' = [th EXCEPT ![t].pc = "done"]
                 /\ gate_lock' = unlock_ex(gate_lock, t)
  /\ UNCHANGED << pmem, arrs, key_locks, lastw, fault >>

M_grow_without_slot_locks(nlock) == TRUE

\* the grow holds every slot lock once it has acquired NumLocks of them
grow_holds_all(nlock) == nlock = NumLocks

GrowLock(t) ==
  /\ ~fault
  /\ th[t].pc = "grow_lock"
  /\ ~grow_holds_all(th[t].nlock)
  /\ lock_ex_free(key_locks[th[t].nlock])
  /\ key_locks' = [key_locks EXCEPT ![th[t].nlock] = lock_ex(@, t)]
  /\ th' = [th EXCEPT ![t].nlock = @ + 1]
  /\ UNCHANGED << pht, pmem, arrs, gate_lock, lastw, fault >>

GrowBegin(t) ==
  /\ ~fault
  /\ th[t].pc = "grow_lock"
  /\ grow_holds_all(th[t].nlock)
  /\ th' = [th EXCEPT ![t].pc = "migrate"]
  /\ UNCHANGED << pht, pmem, arrs, gate_lock, key_locks, lastw, fault >>

\* allocate the next array, move every node, publish, free the old array
pt_grow(tbl, as, m) ==
  LET old == tbl.key_elts
      r   == ht_grow([tbl EXCEPT !.key_elts = as[old].slots], m)
  IN  IF r.ht.count # tbl.count
      THEN [tbl  |-> [r.ht EXCEPT !.key_elts = Len(as) + 1],
            arrs |-> Append([as EXCEPT ![old].slots = EmptySlots,
                                       ![old].freed = TRUE],
                            [count |-> r.ht.count,
                             slots |-> r.ht.key_elts,
                             freed |-> FALSE]),
            mem  |-> r.mem]
      ELSE [tbl  |-> [r.ht EXCEPT !.key_elts = old],
            arrs |-> as,
            mem  |-> r.mem]

Migrated(g) == pht' = g.tbl /\ arrs' = g.arrs /\ pmem' = g.mem

\* grow, then release the slot locks and the gate lock
Migrate(t) ==
  /\ ~fault
  /\ th[t].pc = "migrate"
  /\ Migrated(pt_grow(pht, arrs, pmem))
  /\ key_locks' = [i \in Locks |->
                     IF key_locks[i].w = t THEN unlock_ex(key_locks[i], t)
                     ELSE key_locks[i]]
  /\ gate_lock' = unlock_ex(gate_lock, t)
  /\ th' = [th EXCEPT ![t].pc = "done", ![t].nlock = 0]
  /\ UNCHANGED << lastw, fault >>

StepPT(t) ==
  /\ \/ \E b \in Batches, e \in Elts : Start(t, "insert", b, e)
     \/ \E k \in Keys : Start(t, "search", << k >>, NoElt)
     \/ \E k \in Keys : Start(t, "remove", << k >>, NoElt)
     \/ \E k \in Keys : Start(t, "delete", << k >>, NoElt)
     \/ GateSh(t)
     \/ Snapshot(t)
     \/ SlotLock(t)
     \/ Work(t)
     \/ WorkFault(t)
     \/ GateEx(t)
     \/ Count(t)
     \/ GrowLock(t)
     \/ GrowBegin(t)
     \/ Migrate(t)
  /\ UNCHANGED << seqvars, calc >>

NextPT == \E t \in Threads : StepPT(t)

InitSpecPT ==
  /\ Init
  /\ ht.alpha_n = PTAlpha[1] /\ ht.log_alpha_d = PTAlpha[2]
  /\ ht.free_elt = NULL

SpecPT == InitSpecPT /\ [][NextPT]_vars

(***************************************************************************)
(* The multithreaded table with its free: under the exclusive gate lock,   *)
(* every chain is freed, the slot array is released and the pointer to it  *)
(* is zeroed.  The caller frees a table once, when no other operation is   *)
(* in progress, and starts none afterwards.                                *)
(*                                                                         *)
(*   free_gate : waits for the gate lock in exclusive mode                 *)
(*   free_all  : holds it exclusively, about to free chains and slots      *)
(***************************************************************************)
Freeing == \E t \in Threads : th[t].op = "free"

FreeStart(t) ==
  /\ ~fault /\ ~Freeing
  /\ th[t].pc = "idle"
  /\ \A u \in Threads : th[u].pc \in { "idle", "done" }
  /\ th' = [th EXCEPT ![t] = [Idle EXCEPT !.op = "free", !.pc = "free_gate"]]
  /\ UNCHANGED << pht, pmem, arrs, gate_lock, key_locks, lastw, fault >>

FreeGate(t) ==
  /\ th[t].pc = "free_gate"
  /\ lock_ex_free(gate_lock)
  /\ gate_lock' = lock_ex(gate_lock, t)
  /\ th' = [th EXCEPT ![t].pc = "free_all"]
  /\ UNCHANGED << pht, pmem, arrs, key_locks, lastw, fault >>

FreeAll(t) ==
  /\ th[t].pc = "free_all"
  /\ pmem' = FreeSlots(arrs[pht.key_elts].slots, pmem, pht.free_elt).mem
  /\ arrs' = [arrs EXCEPT ![pht.key_elts].slots = EmptySlots,
                          ![pht.key_elts].freed = TRUE]
  /\ pht' = [pht EXCEPT !.key_elts = NULL]
  /\ gate_lock' = unlock_ex(gate_lock, t)
  /\ th' = [th EXCEPT ![t].pc = "done"]
  /\ UNCHANGED << key_locks, lastw, fault >>

StepFree(t) ==
  /\ \/ FreeStart(t)
     \/ FreeGate(t)
     \/ FreeAll(t)
  /\ UNCHANGED << seqvars, calc >>

NextPTF ==
  \/ ~Freeing /\ NextPT
  \/ \E t \in Threads : StepFree(t)

SpecPTF == InitSpecPT /\ [][NextPTF]_vars

(***************************************************************************)
(* The batch insert of one caller: N key/element pairs, taken in           *)
(* sub-batches of up to b pairs.  Each sub-batch is sorted by the stripe   *)
(* of its keys under the current bucket array and inserted stripe by       *)
(* stripe; then the count is updated and the table grows if its bound is   *)
(* exceeded.  With no other thread in the table the locks are free at      *)
(* every acquisition, and the call is one step.                            *)
(***************************************************************************)
PairBatches == UNION { [1..n -> Keys \X Elts] : n \in 1..MaxBatch }
SubBatchSizes == 1..MaxBatch

\* the pairs of a stripe, last to first
RECURSIVE M_pt_pairs_last_first(_, _, _, _)
M_pt_pairs_last_first(a, r, pairs, s) ==
  IF pairs = << >> THEN r
  ELSE LET q == M_pt_pairs_last_first(a, r, Tail(pairs), s)
       IN  IF stripe(a, pairs[1][1]) = s
           THEN pt_key_op("insert", a, q, pairs[1][1], pairs[1][2])
           ELSE q

\* the pairs of a sub-batch destined for stripe s, in the order of the
\* sub-batch
RECURSIVE pt_pairs_op(_, _, _, _)
pt_pairs_op(a, r, pairs, s) ==
  IF pairs = << >> THEN r
  ELSE pt_pairs_op(a,
                   IF stripe(a, pairs[1][1]) = s
                   THEN pt_key_op("insert", a, r, pairs[1][1], pairs[1][2])
                   ELSE r,
                   Tail(pairs), s)

\* the stripes in order, from s
RECURSIVE pt_stripes_op(_, _, _, _)
pt_stripes_op(a, r, pairs, s) ==
  IF s = NumLocks THEN r
  ELSE pt_stripes_op(a, pt_pairs_op(a, r, pairs, s), pairs, s + 1)

Settled(c, id, r, h) ==
  IF grow_needed(h)
  THEN pt_grow(h, [c.arrs EXCEPT ![id].slots = r.slots], r.mem)
         @@ [freed |-> r.freed]
  ELSE [tbl |-> h, arrs |-> [c.arrs EXCEPT ![id].slots = r.slots],
        mem |-> r.mem, freed |-> r.freed]

Sorted(c, id, r) ==
  Settled(c, id, r, [c.tbl EXCEPT !.num_elts = Word(@ + r.delta)])

\* one sub-batch: snapshot, stripes, count, grow
pt_sub_batch(c, pairs) ==
  Sorted(c, c.tbl.key_elts,
         pt_stripes_op(c.arrs[c.tbl.key_elts],
                       [slots |-> c.arrs[c.tbl.key_elts].slots, mem |-> c.mem,
                        delta |-> 0, out |-> NoElt,
                        free_elt |-> c.tbl.free_elt, freed |-> c.freed],
                       pairs, 0))

MinLen(pairs, b) == IF Len(pairs) < b THEN Len(pairs) ELSE b

RECURSIVE pt_batch_insert(_, _, _)
pt_batch_insert(c, pairs, b) ==
  IF pairs = << >> THEN c
  ELSE pt_batch_insert(pt_sub_batch(c, SubSeq(pairs, 1, MinLen(pairs, b))),
                       SubSeq(pairs, MinLen(pairs, b) + 1, Len(pairs)), b)

BatchInsertDone(t, pairs, c) ==
  /\ pht' = c.tbl
  /\ arrs' = c.arrs
  /\ pmem' = c.mem
  /\ th' = [th EXCEPT ![t] = [Idle EXCEPT !.op = "insert", !.pc = "done",
                                          !.batch = pairs,
                                          !.freed = c.freed]]

BatchInsert(t, pairs, b) ==
  /\ \A u \in Threads \ {t} : th[u].pc = "idle"
  /\ BatchInsertDone(t, pairs,
                     pt_batch_insert([tbl |-> pht, arrs |-> arrs, mem |-> pmem,
                                      freed |-> << >>],
                                     pairs, b))
  /\ UNCHANGED << gate_lock, key_locks, lastw, fault, seqvars, calc >>

NextB ==
  \E t \in Threads, pairs \in PairBatches, b \in SubBatchSizes :
     BatchInsert(t, pairs, b)

InitSpecB ==
  /\ Init
  /\ ht.alpha_n = PTAlpha[1] /\ ht.log_alpha_d = PTAlpha[2]
  /\ ht.free_elt = free_uint_ptr

SpecB == InitSpecB /\ [][NextB]_vars

(***************************************************************************)
(* What the claims speak of.                                               *)
(***************************************************************************)
\* the nodes met from head along next until head is met again
RECURSIVE Walk(_, _, _, _)
Walk(m, head, node, fuel) ==
  IF node = head \/ fuel = 0 \/ node \notin DOMAIN m THEN << >>
  ELSE << node >> \o Walk(m, head, m[node].next, fuel - 1)

Chain(m, head) ==
  IF head = NULL \/ head \notin DOMAIN m THEN << >>
  ELSE << head >> \o Walk(m, head, m[head].next, Cardinality(DOMAIN m))

RECURSIVE SumLen(_, _, _)
SumLen(key_elts, m, S) ==
  IF S = {} THEN 0
  ELSE LET b == MinOf(S)
       IN  Len(Chain(m, key_elts[b])) + SumLen(key_elts, m, S \ {b})

\* every (slot, position) that holds a node
Places(key_elts, m) ==
  { << b, i >> : b \in DOMAIN key_elts, i \in 1..NumKeys + 1 } \cap
  UNION { { << b, i >> : i \in 1..Len(Chain(m, key_elts[b])) } : b \in DOMAIN key_elts }

NodeAt(key_elts, m, pl) == Chain(m, key_elts[pl[1]])[pl[2]]

Grown == ht.count_ix # 0

\* C1: every key inserted and not removed or deleted since is found by
\* search, and the element found is the one of the key's last insert.
C1_SearchFindsLastInsert ==
  \A k \in Keys :
    last[k] # NoElt =>
      LET n == ht_divchn_search(ht, mem, k)
      IN  n # NULL /\ mem[n].elt = last[k]

\* a search after two growth steps found a key with its last element while
\* every key is in the table
C1_Witness ==
  /\ chk.call = "search" /\ ~chk.null /\ chk.elt_eq
  /\ ht.count_ix >= 2
  /\ \A k \in Keys : last[k] # NoElt

C4_NodesHashToTheirSlot ==
  \A b \in DOMAIN ht.key_elts :
    /\ b < ht.count
    /\ \A i \in 1..Len(Chain(mem, ht.key_elts[b])) :
         convert_std_key(mem[Chain(mem, ht.key_elts[b])[i]].key) % ht.count = b

\* after growth a chain holds two nodes
C4_Witness ==
  /\ Grown
  /\ \E b \in DOMAIN ht.key_elts : Len(Chain(mem, ht.key_elts[b])) >= 2

\* C5: no two nodes of the table, in one chain or in two, hold equal keys.
C5_KeysPairwiseDistinct ==
  \A p \in Places(ht.key_elts, mem), q \in Places(ht.key_elts, mem) :
    p # q => mem[NodeAt(ht.key_elts, mem, p)].key # mem[NodeAt(ht.key_elts, mem, q)].key

\* a key of a chain of two was inserted again: its node was updated
C5_Witness ==
  /\ chk.call = "update" /\ ht.num_elts = 2
  /\ \E b \in DOMAIN ht.key_elts :
       /\ Len(Chain(mem, ht.key_elts[b])) = 2
       /\ mem[Chain(mem, ht.key_elts[b])[2]].elt # mem[Chain(mem, ht.key_elts[b])[1]].elt

\* C10: after insert(k, e); remove(k, out) the search of k returns NULL, out
\* equals e, and num_elts is what it was before the insert if k was absent.
C10_InsertRemoveRoundTrip ==
  chk.call = "roundtrip" => chk.null /\ chk.elt_eq /\ chk.cnt_eq

\* a round trip ran in a table that had grown and holds another key
C10_Witness ==
  /\ chk.call = "roundtrip" /\ chk.null /\ chk.elt_eq
  /\ Grown /\ ht.num_elts >= 1

(***************************************************************************)
(* The multithreaded table at rest and in motion.                          *)
(***************************************************************************)
AllDone == \A t \in Threads : th[t].pc = "done"
AllInserts == \A t \in Threads : th[t].op = "insert"
BatchKeys(t) == { th[t].batch[i] : i \in 1..Len(th[t].batch) }
AllBatchKeys == UNION { BatchKeys(t) : t \in Threads }
DisjointBatches ==
  \A t \in Threads, u \in Threads : t # u => BatchKeys(t) \cap BatchKeys(u) = {}

\* what a search finds once no thread is in the table
PtNode(k) ==
  dll_search_key(pmem, Slot(arrs[pht.key_elts].slots, hash(pht, k)), k)

PtReachable(k) ==
  LET key_elts == arrs[pht.key_elts].slots
  IN  { p \in Places(key_elts, pmem) : pmem[NodeAt(key_elts, pmem, p)].key = k }

Unfinished(t) == th[t].pc \notin { "idle", "done" }

\* the thread waits for a lock that another thread holds
Blocked(t) ==
  \/ th[t].pc = "gate_sh" /\ ~lock_sh_free(gate_lock)
  \/ th[t].pc = "gate_ex" /\ ~lock_ex_free(gate_lock)
  \/ /\ th[t].pc = "slot"
     /\ LET l == key_locks[NextStripe(arrs[th[t].snap], th[t].keys)]
        IN  IF th[t].op = "search" THEN ~lock_sh_free(l) ELSE ~lock_ex_free(l)
  \/ /\ th[t].pc = "grow_lock"
     /\ ~grow_holds_all(th[t].nlock)
     /\ ~lock_ex_free(key_locks[th[t].nlock])

\* C2: once every thread has finished a batch insert, the batches pairwise
\* disjoint and the table empty before, num_elts is the number of keys
\* inserted and a search finds every key with the element of its insert.
C2_NoInsertIsLost ==
  (AllDone /\ AllInserts /\ DisjointBatches) =>
     /\ pht.num_elts = Cardinality(AllBatchKeys)
     /\ \A t \in Threads : \A k \in BatchKeys(t) :
          /\ PtNode(k) # NULL
          /\ pmem[PtNode(k)].elt = th[t].elt

\* C6: no thread is in the chains of a bucket array that a grow has freed.
C6_NoAccessThroughStaleSnapshot ==
  \A t \in Threads : th[t].pc = "work" => ~arrs[th[t].snap].freed

\* C7: every started operation completes under fair scheduling, and in no
\* state is every unfinished thread waiting for a lock.  Every step moves a
\* thread forward in its operation and no step moves one back, so a fair
\* run ends in a state without a step to take: the operations all complete
\* exactly when, in every state with an unfinished operation, some
\* unfinished thread has a step to take.
C7_EveryOperationCompletes ==
  (\E t \in Threads : Unfinished(t)) =>
     /\ ~fault
     /\ \E t \in Threads : Unfinished(t) /\ ~Blocked(t)

\* C8: at most one thread grows at a time, and while it moves the nodes no
\* other thread copies (count, key_elts), is in a chain, or adds to num_elts.
C8_GrowIsAtomic ==
  /\ Cardinality({ t \in Threads : th[t].pc \in { "grow_lock", "migrate" } }) <= 1
  /\ \A t \in Threads : th[t].pc = "migrate" =>
       \A u \in Threads \ {t} :
         th[u].pc \notin { "snap", "work", "count", "grow_lock", "migrate" }

\* a grow moves the nodes while another thread, its snapshot taken, waits
\* for a slot lock
C8_Witness ==
  \E t \in Threads, u \in Threads :
     /\ th[t].pc = "migrate"
     /\ th[u].pc = "slot"
     /\ Blocked(u)

\* C9: once the threads have finished batch inserts, a key that two batches
\* hold is in exactly one node of the table, num_elts counts it once, and
\* its element is that of the insert that held its slot lock last.
C9_SameKeySerialised ==
  (AllDone /\ AllInserts) =>
     \A k \in Keys :
        (\E t \in Threads, u \in Threads :
            t # u /\ k \in BatchKeys(t) /\ k \in BatchKeys(u)) =>
           /\ Cardinality(PtReachable(k)) = 1
           /\ pht.num_elts = Cardinality(AllBatchKeys)
           /\ pmem[PtNode(k)].elt = lastw[k]


(***************************************************************************)
(* The effect of one call on the table.                                    *)
(***************************************************************************)
\* the element search finds under a key, or NoElt
EltOf(h, m, k) ==
  IF ht_divchn_search(h, m, k) = NULL THEN NoElt
  ELSE m[ht_divchn_search(h, m, k)].elt

\* C11: an insert of a pair (k, e) that the table already holds leaves
\* search(k) equal to e and leaves the count of elements unchanged.
C11_SecondInsertIdempotent ==
  [][\A k \in Keys, e \in Elts :
       (Insert(k, e) /\ EltOf(ht, mem, k) = e) =>
         /\ EltOf(ht', mem', k) = e
         /\ ht'.num_elts = ht.num_elts]_vars

C11_Witness == chk.call = "update" /\ chk.same /\ ht.num_elts = 2


\* C12: an insert of a key the table holds is an update in place: free_elt,
\* when there is one, is called on the element the node held, the new element
\* is written into the same node, and the count of elements, the count of
\* slots, its index in the ladder of primes, the slots and the set of nodes
\* are left as they were.
C12_UpdateInPlace ==
  [][\A k \in Keys, e \in Elts :
       (Insert(k, e) /\ ht_divchn_search(ht, mem, k) # NULL) =>
         LET node == ht_divchn_search(ht, mem, k)
         IN  /\ ht_divchn_search(ht', mem', k) = node
             /\ mem' = [mem EXCEPT ![node].elt = e]
             /\ ht' = ht
             /\ ht.free_elt # NULL =>
                  /\ pay' = (pay \ {mem[node].elt}) \cup {e}
                  /\ ~bad'
             /\ ht.free_elt = NULL => pay' = pay /\ ~bad']_vars

C12_Witness ==
  /\ chk.call = "update" /\ ht.free_elt # NULL
  /\ Grown /\ ht.num_elts = 1 /\ Cardinality(pay) = 1


\* C13: a search for a key that was never inserted, or was removed or
\* deleted since its last insert, returns NULL, and a search, whatever it
\* returns, leaves the table and its nodes as they were.
C13_SearchAbsentIsNull ==
  [][\A k \in Keys :
       Search(k) =>
         /\ last[k] = NoElt => chk'.null
         /\ ht' = ht /\ mem' = mem /\ pay' = pay]_vars

C13_Witness ==
  /\ chk.call = "search" /\ chk.null
  /\ Grown /\ ht.num_elts = 1


\* C14: a remove or a delete of a key that is not in the table changes
\* nothing: the count of elements, the count of slots, every chain and
\* every node stay as they were, remove leaves the block the caller passed
\* for the element as it was, and free_elt is not called.
C14_AbsentRemoveDeleteNoOp ==
  [][\A k \in Keys :
       ((Remove(k) \/ Delete(k)) /\ ht_divchn_search(ht, mem, k) = NULL) =>
         /\ ht' = ht /\ mem' = mem
         /\ pay' = pay /\ bad' = bad
         /\ \A o \in Elts \cup {NoElt} :
              ht_divchn_remove(ht, mem, k, o).out = o]_vars

C14_Witness ==
  /\ chk.call = "remove" /\ chk.null
  /\ ht.free_elt # NULL /\ Grown /\ ht.num_elts = 1


(***************************************************************************)
(* The blocks that elements point to, when the table has a free_elt.       *)
(***************************************************************************)
\* the elements the nodes hold
Held == { mem[n].elt : n \in DOMAIN mem }

\* C15: free_elt is called exactly once on each element that leaves the
\* table by an update, a delete or ht_divchn_free, and never on an element
\* that leaves by remove.  With elements that point to blocks: no block is
\* released twice, also counting the caller's release of what remove handed
\* back; the allocated blocks are at all times the ones the nodes point
\* to; and after ht_divchn_free no node and no block is left.
C15_DestructorAccounting ==
  /\ ~bad
  /\ ht.free_elt # NULL => pay = Held
  /\ ht.free_elt = NULL => pay = {}
  /\ chk.call = "free" => mem = << >> /\ pay = {}

C15_Witness ==
  /\ chk.call = "free" /\ ht.free_elt # NULL
  /\ Grown /\ ht.num_elts = 2 /\ pay = {} /\ ~bad


(***************************************************************************)
(* The count of slots, its place in the ladder of primes and the bound on  *)
(* the count of elements.                                                  *)
(***************************************************************************)
Closed(ix) == ix = C_SIZE_MAX \/ ix = C_PRIME_PARTS_COUNT

\* C16: after every call, if the count of elements exceeds max_num_elts
\* then the ladder is closed: count_ix is C_SIZE_MAX (the next prime does
\* not fit a word) or C_PRIME_PARTS_COUNT (no prime is left).
C16_OverBoundOnlyWhenClosed ==
  ht.num_elts > ht.max_num_elts => Closed(ht.count_ix)

C16_Witness ==
  /\ ht.num_elts > ht.max_num_elts /\ Closed(ht.count_ix)
  /\ chk.call = "insert" /\ ht.num_elts = 2


\* floor(n * a / 2^d), or C_SIZE_MAX if that is smaller, computed from the
\* quotient and the remainder of n by 2^d so that no product exceeds
\* 31 bits
LoadBound(n, a, d) ==
  LET q == n \div Pow2(d)
      r == n % Pow2(d)
  IN  IF q > 0 /\ a > C_SIZE_MAX \div q THEN C_SIZE_MAX
      ELSE LET v == q * a + ((r * a) \div Pow2(d))
           IN  IF v > C_SIZE_MAX THEN C_SIZE_MAX ELSE v

\* C17: in every state after initialisation max_num_elts is
\* floor(count * alpha_n / 2^log_alpha_d), or C_SIZE_MAX if that is smaller,
\* for the current count of slots and the alpha_n and log_alpha_d passed
\* to ht_divchn_init.
C17_MaxCountFromModulus ==
  ht.max_num_elts = LoadBound(ht.count, ht.alpha_n, ht.log_alpha_d)


\* the primes that incr_count reaches from a table at h's count
RECURSIVE LadderFrom(_)
LadderFrom(h) ==
  LET r == incr_count(h)
  IN  IF r.ret = 1 THEN {h.count} \cup LadderFrom(r.ht) ELSE {h.count}

Ladder == LadderFrom(ht_divchn_init(0, 1, 0, NULL, << 1, 0 >>))

\* the primes whose bound on the count of elements is at least m
Enough(m, a, d) == { p \in Ladder : LoadBound(p, a, d) >= m }

\* C18: right after ht_divchn_init the table is empty, and its count of
\* slots is at least the smallest prime of the ladder whose max_num_elts is
\* at least min_num, or is the largest prime of the ladder if there is none.
C18_InitPostcondition ==
  chk.call = "none" =>
    /\ ht.num_elts = 0 /\ ht.key_elts = EmptySlots /\ mem = << >>
    /\ LET S == Enough(min_num, ht.alpha_n, ht.log_alpha_d)
       IN  IF S # {} THEN ht.count >= MinOf(S)
           ELSE \A p \in Ladder : ht.count >= p


\* C19: for every word n, every alpha_n >= 1 and every log_alpha_d from 0
\* to the width of the word less one, mul_alpha_sz_max returns
\* floor(n * alpha_n / 2^log_alpha_d), or C_SIZE_MAX if that is smaller,
\* the product taken at the width of two words.
C19_MulAlphaSaturates ==
  calc.done =>
    calc.ret = LoadBound(calc.n, calc.alpha_n, calc.log_alpha_d)

\* a product above one word whose quotient fits the word
C19_Witness ==
  /\ calc.done /\ calc.n = 65535 /\ calc.alpha_n = 257
  /\ calc.log_alpha_d = 9 /\ calc.ret = 32895


\* the prime the ladder yields at index ix of group g; a closed index is
\* no index of C_PRIME_PARTS and yields none
PrimeAt(ix, g) ==
  IF Closed(ix) THEN NULL ELSE build_prime(ix, At(C_PARTS_PER_PRIME, g))

MaxOf(S) == CHOOSE x \in S : \A y \in S : x >= y

\* C20 as stated: in every state the count of slots is the prime the
\* ladder yields at count_ix.
C20_ModulusIsLadderPrime ==
  ht.count = PrimeAt(ht.count_ix, ht.group_ix)

\* C20: in every state the count of slots is the prime the ladder yields
\* at count_ix while the ladder is open; once count_ix is C_SIZE_MAX or
\* C_PRIME_PARTS_COUNT the count of slots is the last prime that was
\* built, the largest of the ladder.
C20_ModulusIsLadderPrimeOrLast ==
  IF Closed(ht.count_ix) THEN ht.count = MaxOf(Ladder)
  ELSE ht.count = PrimeAt(ht.count_ix, ht.group_ix)

C20_Witness ==
  /\ Closed(ht.count_ix) /\ ht.count = MaxOf(Ladder)
  /\ chk.call = "search" /\ ~chk.null /\ ht.num_elts = 2


\* C21: over the calls on a table the count of slots never decreases and
\* count_ix never decreases; a remove and a delete leave the count of
\* slots as it was.
C21_CountNeverDecreases ==
  [][/\ ht'.count >= ht.count
     /\ ht'.count_ix >= ht.count_ix
     /\ \A k \in Keys :
          (Remove(k) \/ Delete(k)) =>
            ht'.count = ht.count /\ ht'.count_ix = ht.count_ix]_vars

\* a key was removed from a grown table that is now empty
C21_Witness ==
  /\ chk.call = "remove" /\ ~chk.null
  /\ Grown /\ ht.num_elts = 0


\* C22: a grow changes links only.  Over an insert that grows the table,
\* every node the table held before is a node after, at the same address
\* with the same key and the same element, the pointer search returns for
\* a key that was in the table is the same before and after, and the one
\* node that is new is the node of the inserted key.
C22_GrowKeepsNodes ==
  [][\A k \in Keys, e \in Elts :
       (Insert(k, e) /\ ht'.count # ht.count) =>
         /\ \A n \in DOMAIN mem :
              /\ n \in DOMAIN mem'
              /\ mem'[n].key = mem[n].key
              /\ mem'[n].elt = mem[n].elt
         /\ \A q \in Keys :
              ht_divchn_search(ht, mem, q) # NULL =>
                ht_divchn_search(ht', mem', q) = ht_divchn_search(ht, mem, q)
         /\ DOMAIN mem' \ DOMAIN mem = {ht_divchn_search(ht', mem', k)}]_vars

\* the second insert into a table of 1543 slots with alpha 1/2^10 grew it
C22_Witness ==
  /\ chk.call = "insert" /\ ht.num_elts = 2
  /\ ht.log_alpha_d = 10 /\ ht.count_ix = 1 /\ min_num = 0


\* C23: once count_ix is C_SIZE_MAX or C_PRIME_PARTS_COUNT, no call
\* changes the count of slots, max_num_elts, count_ix or group_ix again,
\* and every insert still takes effect: the key is found afterwards with
\* the inserted element, and the count of elements goes up by one for a
\* key that was not in the table and stays for a key that was, whether or
\* not it exceeds max_num_elts.
C23_ClosedLadderStillInserts ==
  [][Closed(ht.count_ix) =>
       /\ ht'.count = ht.count
       /\ ht'.max_num_elts = ht.max_num_elts
       /\ ht'.count_ix = ht.count_ix
       /\ ht'.group_ix = ht.group_ix
       /\ \A k \in Keys, e \in Elts :
            Insert(k, e) =>
              /\ EltOf(ht', mem', k) = e
              /\ ht'.num_elts =
                   ht.num_elts + (IF ht_divchn_search(ht, mem, k) = NULL
                                  THEN 1 ELSE 0)]_vars

\* a table closed by ht_divchn_init, two inserts later
C23_Witness ==
  /\ min_num = 2 /\ ht.log_alpha_d = 15 /\ ht.max_num_elts = 1
  /\ Closed(ht.count_ix)
  /\ chk.call = "insert" /\ ht.num_elts = 2


(***************************************************************************)
(* Who waits for whom in the multithreaded table.                          *)
(***************************************************************************)
\* the lock a thread is about to acquire
Wanted(t) ==
  IF th[t].pc \in { "gate_sh", "gate_ex" } THEN gate_lock
  ELSE IF th[t].pc = "slot"
  THEN key_locks[NextStripe(arrs[th[t].snap], th[t].keys)]
  ELSE key_locks[th[t].nlock]

\* C24: a search never waits for a lock that only searches hold.  A search
\* that waits, for the gate lock or for a slot lock, waits for a lock that
\* a thread of another operation holds exclusively; searches hold the gate
\* lock together and one slot lock together.
C24_SearchWaitsOnlyForWriter ==
  \A t \in Threads :
    (th[t].op = "search" /\ Blocked(t)) =>
      /\ Wanted(t).w # NULL
      /\ Wanted(t).w # t
      /\ th[Wanted(t).w].op # "search"

\* two searches hold the same slot lock in shared mode
C24_Witness ==
  \E t \in Threads, u \in Threads, s \in Locks :
     /\ t # u
     /\ th[t].op = "search" /\ th[u].op = "search"
     /\ th[t].pc = "work" /\ th[u].pc = "work"
     /\ key_locks[s].r = {t, u}


Mutating(t) == th[t].op \in { "insert", "remove", "delete" } /\ Unfinished(t)

\* the stripes of a thread's keys, under the bucket array of its snapshot,
\* or under the current one before the snapshot is taken
StripesOf(t) ==
  LET a == IF th[t].snap = NULL THEN arrs[pht.key_elts] ELSE arrs[th[t].snap]
  IN  { stripe(a, k) : k \in BatchKeys(t) }

DisjointStripes(t, u) == StripesOf(t) \cap StripesOf(u) = {}

Holds(u, l) == l.w = u \/ u \in l.r

C26_GateLockGuardsTableFields ==
  [][\A t \in Threads :
       th'[t] # th[t] =>
         /\ (pht' # pht \/ Len(arrs') # Len(arrs)) =>
              gate_lock.w = t /\ gate_lock.r = {}
         /\ th[t].pc = "snap" => t \in gate_lock.r /\ gate_lock.w = NULL
         /\ th[t].pc \in { "count", "grow_lock", "migrate" } =>
              gate_lock.w = t /\ gate_lock.r = {}]_vars

\* a grow is about to write the fields while another thread waits at the gate
C26_Witness ==
  \E t \in Threads, u \in Threads :
     /\ th[t].pc = "migrate" /\ gate_lock.w = t
     /\ th[u].pc = "gate_sh"


\* every slot lock is held exclusively by the thread
HoldsAllSlots(t) == \A i \in Locks : key_locks[i].w = t /\ key_locks[i].r = {}

\* a thread in the chains of its keys' stripe holds that stripe's slot
\* lock, shared with no writer for a search and exclusively otherwise, a
\* thread that moves the nodes in a grow holds every slot lock, and two
\* threads in the chains of one slot array at once, not both searching,
\* are in the chains of different stripes
ChainsUnderSlotLocks ==
  /\ \A t \in Threads :
       /\ th[t].pc = "work" =>
            LET l == key_locks[WorkOn(t).s]
            IN  IF th[t].op = "search" THEN t \in l.r /\ l.w = NULL
                ELSE l.w = t /\ l.r = {}
       /\ th[t].pc = "migrate" => HoldsAllSlots(t)
  /\ \A t \in Threads, u \in Threads :
       (/\ t # u /\ th[t].pc = "work" /\ th[u].pc = "work"
        /\ th[t].snap = th[u].snap
        /\ ~(th[t].op = "search" /\ th[u].op = "search")) =>
         WorkOn(t).s # WorkOn(u).s

PtEltIn(tbl, as, m, k) ==
  LET node == dll_search_key(m, Slot(as[tbl.key_elts].slots, hash(tbl, k)), k)
  IN  IF node = NULL THEN NoElt ELSE m[node].elt

\* the elements a batch gives for a key, in batch order
Occ(pairs, k) ==
  LET mine == SelectSeq(pairs, LAMBDA p : p[1] = k)
  IN  [i \in 1..Len(mine) |-> mine[i][2]]

\* the elements the destructor was called on in nodes of a key, in order
Destroyed(log, k) ==
  LET mine == SelectSeq(log, LAMBDA x : x.key = k)
  IN  [i \in 1..Len(mine) |-> mine[i].elt]

Front(q) == SubSeq(q, 1, Len(q) - 1)

\* C28: after a batch insert by one caller, every key of the batch holds
\* the element of its last occurrence, the destructor has run, in batch
\* order, on the element the key held before and on the element of each
\* occurrence but the last, and the count of elements has grown by one
\* for each key of the batch that was absent, whatever the sub-batch size.
C28_BatchOrderLastWins ==
  [][\A t \in Threads :
       th'[t].pc = "done" =>
         LET pairs == th'[t].batch
         IN  /\ \A i \in 1..Len(pairs) :
                  LET k   == pairs[i][1]
                      occ == Occ(pairs, k)
                      was == PtEltIn(pht, arrs, pmem, k)
                  IN  /\ PtEltIn(pht', arrs', pmem', k) = occ[Len(occ)]
                      /\ Destroyed(th'[t].freed, k) =
                           (IF was = NoElt THEN << >> ELSE << was >>)
                             \o Front(occ)
             /\ pht'.num_elts = pht.num_elts +
                  Cardinality({ pairs[i][1] : i \in 1..Len(pairs) } \
                              { k \in Keys :
                                  PtEltIn(pht, arrs, pmem, k) # NoElt })]_vars

\* a batch gave a key twice, with another key in between and with
\* different elements, to a table that held the key
C28_Witness ==
  \E t \in Threads :
     /\ th[t].pc = "done" /\ Len(th[t].batch) = 3
     /\ th[t].batch[1][1] = th[t].batch[3][1]
     /\ th[t].batch[2][1] # th[t].batch[1][1]
     /\ th[t].batch[1][2] # th[t].batch[3][2]
     /\ PtEltIn(pht, arrs, pmem, th[t].batch[1][1]) = th[t].batch[3][2]
     /\ Len(Destroyed(th[t].freed, th[t].batch[1][1])) = 2


(***************************************************************************)
(* Where a grow stops on the ladder.                                       *)
(***************************************************************************)
\* the count of elements an insert of key k leaves
CountAfter(k) ==
  ht.num_elts + (IF ht_divchn_search(ht, mem, k) = NULL THEN 1 ELSE 0)

\* the insert of key k calls ht_grow
Grows(k) == CountAfter(k) > ht.max_num_elts /\ ~Closed(ht.count_ix)

\* the primes above the count of slots whose bound is at least m
EnoughAbove(m) ==
  { p \in Enough(m, ht.alpha_n, ht.log_alpha_d) : p > ht.count }

\* C29: an insert that calls ht_grow leaves as count of slots the smallest
\* prime of the ladder above the previous count whose bound on the count
\* of elements is at least the count of elements, with max_num_elts that
\* prime's bound; if the ladder has no such prime it leaves the largest
\* prime of the ladder, and count_ix is C_SIZE_MAX or C_PRIME_PARTS_COUNT.
C29_GrowStopsAtFirstEnough ==
  [][\A k \in Keys, e \in Elts :
       (Insert(k, e) /\ Grows(k)) =>
         IF EnoughAbove(CountAfter(k)) # {}
         THEN /\ ht'.count = MinOf(EnoughAbove(CountAfter(k)))
              /\ ht'.max_num_elts =
                   LoadBound(ht'.count, ht.alpha_n, ht.log_alpha_d)
              /\ ~Closed(ht'.count_ix)
         ELSE /\ ht'.count = MaxOf(Ladder)
              /\ Closed(ht'.count_ix)]_vars

\* a grow that passed every insufficient prime and stopped at the last one,
\* the first that suffices
C29_Witness ==
  /\ chk.call = "insert" /\ min_num = 0 /\ ht.log_alpha_d = 15
  /\ ht.num_elts = 1 /\ ht.max_num_elts = 1
  /\ ht.count = MaxOf(Ladder) /\ ht.count_ix = 5


(***************************************************************************)
(* One advance of the ladder.                                              *)
(***************************************************************************)
\* the position that follows a position of the ladder
NextIx(h) == h.count_ix + At(C_PARTS_PER_PRIME, h.group_ix)

NextGroup(h) ==
  CHOOSE g \in 0..3 : GroupStart(g) <= NextIx(h) /\ NextIx(h) < At(C_PARTS_ACC_COUNTS, g)

\* the bits of the prime at the next position: its parts below the last
\* fill C_BUILD_SHIFT bits each
NextBits(h) ==
  LET n == At(C_PARTS_PER_PRIME, NextGroup(h))
  IN  BitLen(At(C_PRIME_PARTS, NextIx(h) + n - 1)) + (n - 1) * C_BUILD_SHIFT

RECURSIVE PartsValue(_, _)
PartsValue(start, n) ==
  IF n = 0 THEN 0
  ELSE At(C_PRIME_PARTS, start) + Pow2(C_BUILD_SHIFT) * PartsValue(start + 1, n - 1)

\* C30: a call of incr_count returns 0 in two cases and no other: no
\* position follows on the ladder, and then count_ix is left as
\* C_PRIME_PARTS_COUNT, or the prime at the next position has more bits
\* than the word, and then count_ix is left as C_SIZE_MAX, a different
\* value; in both the count of slots and max_num_elts are as before.  In
\* every other case it returns 1 and leaves the table at the next
\* position, with the prime there, larger than the previous one, as
\* count of slots and that prime's bound as max_num_elts.
C30_AdvanceFailsInTwoCases ==
  (calc.fn = "incr_count" /\ calc.done) =>
    /\ C_SIZE_MAX # C_PRIME_PARTS_COUNT
    /\ IF NextIx(calc.h) = C_PRIME_PARTS_COUNT
       THEN /\ calc.ret = 0
            /\ calc.out.count_ix = C_PRIME_PARTS_COUNT
            /\ calc.out.count = calc.h.count
            /\ calc.out.max_num_elts = calc.h.max_num_elts
       ELSE IF NextBits(calc.h) > C_FULL_BIT
       THEN /\ calc.ret = 0
            /\ calc.out.count_ix = C_SIZE_MAX
            /\ calc.out.count = calc.h.count
            /\ calc.out.max_num_elts = calc.h.max_num_elts
       ELSE /\ calc.ret = 1
            /\ calc.out.count_ix = NextIx(calc.h)
            /\ calc.out.count =
                 PartsValue(NextIx(calc.h), At(C_PARTS_PER_PRIME, NextGroup(calc.h)))
            /\ calc.out.count > calc.h.count
            /\ calc.out.max_num_elts =
                 LoadBound(calc.out.count, calc.h.alpha_n, calc.h.log_alpha_d)

\* an advance from the last position of the ladder
C30_Witness ==
  /\ calc.fn = "incr_count" /\ calc.done /\ calc.ret = 0
  /\ calc.out.count_ix = C_PRIME_PARTS_COUNT
  /\ calc.out.count = calc.h.count


(***************************************************************************)
(* The group of the current prime.                                         *)
(***************************************************************************)
\* the parts of C_BUILD_SHIFT bits that a count of slots is built from
PartsIn(c) == (BitLen(c) + C_BUILD_SHIFT - 1) \div C_BUILD_SHIFT

\* C31: in every state group_ix tells the parts the count of slots is
\* built from: the count of slots is built from group_ix + 1 parts of
\* C_PRIME_PARTS.
C31_GroupIndexCountsParts ==
  ht.group_ix + 1 = PartsIn(ht.count)


(***************************************************************************)
(* The conversion of a key to a word.                                      *)
(***************************************************************************)
\* the sum of the bytes of a key from index i, the byte at index i
\* shifted left by (i * C_BYTE_BIT) mod C_FULL_BIT, in a word
RECURSIVE ShiftedSum(_, _)
ShiftedSum(key, i) ==
  IF i >= Len(key) THEN 0
  ELSE Word(key[i + 1] * Pow2((i * C_BYTE_BIT) % C_FULL_BIT)
            + ShiftedSum(key, i + 1))

\* C32: with rdc_key NULL, for a key of any size from one byte the
\* converted key is the sum of the bytes, the byte at index i shifted left
\* by (i * C_BYTE_BIT) mod C_FULL_BIT, in a word, and hash returns that
\* sum modulo the count of slots.
C32_KeyIsShiftedByteSum ==
  (calc.fn = "hash" /\ calc.done) =>
    /\ calc.ret = ShiftedSum(calc.key, 0)
    /\ calc.ix = ShiftedSum(calc.key, 0) % ht.count


(***************************************************************************)
(* The list as a ring.                                                     *)
(***************************************************************************)
\* the nodes met from the head along next, until the head is met again
Ring == Chain(mem, calc.head)

\* C33: after every call of dll_prepend_new, dll_append_new, dll_prepend,
\* dll_append, dll_remove and dll_delete the list is a ring: the head
\* pointer is NULL exactly when no node is in the list, a single node is
\* its own next and prev, every node of the list is the prev of its next
\* and the next of its prev, and the walk along next from the head meets
\* every node of the list once and comes back to the head.
C33_ListIsRing ==
  calc.fn = "dll" =>
    /\ calc.head = NULL <=> calc.in = {}
    /\ calc.in \subseteq DOMAIN mem
    /\ \A n \in calc.in :
         /\ mem[n].next \in calc.in /\ mem[n].prev \in calc.in
         /\ mem[mem[n].next].prev = n /\ mem[mem[n].prev].next = n
         /\ calc.in = {n} => mem[n].next = n /\ mem[n].prev = n
    /\ Len(Ring) = Cardinality(calc.in)
    /\ { Ring[i] : i \in 1..Len(Ring) } = calc.in
    /\ calc.head # NULL => mem[Ring[Len(Ring)]].next = calc.head

\* a node removed from a list of three and appended again
C33_Witness ==
  /\ calc.fn = "dll" /\ calc.call = "append"
  /\ Cardinality(calc.in) = 3 /\ Ring[3] = calc.node

\* C34: dll_remove of a node of the list takes that node out of the ring
\* and releases no node: the head pointer becomes NULL if the node was
\* alone, the node's next if the node was the head, and stays otherwise,
\* and the walk from the head meets the other nodes in the order it met
\* them before.
C34_RemoveUnlinksOneNode ==
  [][\A node \in Addr :
       (calc.fn = "dll" /\ ListRemove(node)) =>
         /\ DOMAIN mem' = DOMAIN mem
         /\ calc'.head = (IF calc.in = {node} THEN NULL
                          ELSE IF calc.head = node THEN mem[node].next
                          ELSE calc.head)
         /\ Chain(mem', calc'.head) =
              SelectSeq(Chain(mem, calc.head), LAMBDA n : n # node)]_vars

\* the head of a list of three was removed
C34_Witness ==
  /\ calc.fn = "dll" /\ calc.call = "remove"
  /\ Cardinality(calc.in) = 2 /\ calc.node \in DOMAIN mem
  /\ mem[calc.node].next = calc.head

\* C35: dll_free of a list ends, releases the nodes of the list and no
\* other node, calls free_elt, if there is one, once on the element of
\* each node of the list, in the order of the walk from the head, reads
\* each node before it is released, and leaves the head pointer NULL.
C35_FreeReleasesEveryNode ==
  [][(calc.fn = "dll" /\ ListFree) =>
       /\ calc'.head = NULL
       /\ mem' = Restrict(mem, DOMAIN mem \ calc.in)
       /\ calc'.freed =
            (IF ht.free_elt = NULL THEN << >>
             ELSE [i \in 1..Len(Chain(mem, calc.head)) |->
                     mem[Chain(mem, calc.head)[i]].elt])]_vars

\* a list of two was freed with a free_elt, a removed node is left
C35_Witness ==
  /\ calc.fn = "dll" /\ calc.call = "free" /\ Len(calc.freed) = 2
  /\ Cardinality(DOMAIN mem) = 1


(***************************************************************************)
(* The count of elements under concurrent insert, remove and delete.       *)
(***************************************************************************)
\* C36: in the multithreaded table the count of elements never wraps
\* below zero: a thread that is about to add a negative delta under the
\* exclusive gate lock finds a count of elements above zero, and the count
\* is at no time above the number of nodes that can exist.
C36_CountNeverWraps ==
  /\ \A t \in Threads :
       (th[t].pc = "count" /\ th[t].delta < 0) => pht.num_elts > 0
  /\ pht.num_elts <= Cardinality(Addr)


(***************************************************************************)
(* The shifts of the load factor computation.                              *)
(***************************************************************************)
\* C37: for every word n, every alpha_n >= 1 and every log_alpha_d from 0
\* to the width of the word less one, every shift of mul_alpha_sz_max is by
\* a count below the width of the word.
C37_ShiftsBelowWidth ==
  (calc.fn = "mul_alpha_sz_max" /\ calc.done) =>
    LET c == mul_alpha_sz_max_shifts(calc.n, calc.alpha_n, calc.log_alpha_d)
    IN  \A i \in 1..Len(c) : c[i] < C_FULL_BIT


(***************************************************************************)
(* The reads of the ladder's arrays and the primes built, by word width.   *)
(***************************************************************************)
\* the bits of a prime kept as parts
PartsBits(parts) ==
  BitLen(parts[Len(parts)]) + (Len(parts) - 1) * C_BUILD_SHIFT

\* C38: on words of 16, 32 and 64 bits, in ht_divchn_init and in every
\* advance of its loop and of the loop of ht_grow, the advance from the
\* last prime the word holds included, C_PRIME_PARTS is read at indices
\* below C_PRIME_PARTS_COUNT, C_PARTS_PER_PRIME and C_PARTS_ACC_COUNTS at
\* indices from 0 to 3, and the prime that is built fits the word: each
\* part below the last fills at most C_BUILD_SHIFT bits, each shift is by
\* less than the width, and the bits of the prime are at most the width.
C38_LadderReadsInRange ==
  calc.fn = "ladder" =>
    /\ calc.parts_read \subseteq 0..(C_PRIME_PARTS_COUNT - 1)
    /\ calc.groups_read \subseteq 0..3
    /\ \A i \in 1..(Len(calc.parts) - 1) : calc.parts[i] < Pow2(C_BUILD_SHIFT)
    /\ (Len(calc.parts) - 1) * C_BUILD_SHIFT < calc.w
    /\ PartsBits(calc.parts) <= calc.w

\* a grow on a 32-bit word tried to advance from the last two-part prime
C38_Witness ==
  /\ calc.fn = "ladder" /\ calc.w = 32 /\ calc.by = "grow"
  /\ calc.ret = 0 /\ calc.count_ix = AllOnes
  /\ Len(calc.parts) = 2 /\ PartsBits(calc.parts) = 32

====
